---- MODULE Spec2Model ----
(***************************************************************************)
(* Decision and booking engine of meeting_tool (src/src/index.ts) over its *)
(* relational store (migrations 001..004).  Every store statement of        *)
(* decideAndClose and cancelEvent is one atomic step, so that concurrent    *)
(* callers interleave exactly at the awaits of the source.                  *)
(***************************************************************************)
EXTENDS Integers, FiniteSets, Sequences, Bags, TLC

\* ------------------------------------------------------------------ bounds
MaxCalls == 2        \* close, cancel and scheduler invocations started in one run of Spec
MaxCap == 5          \* known room capacities range over 0..MaxCap
MaxAttendees == 3    \* yes voters of an event, and attendance rows of the other one
MaxYes == 5          \* yes votes per option drawn for the selection runs
MaxMaybe == 2        \* maybe votes per option drawn for the selection runs

\* ------------------------------------------------------- identities, values
Procs == {"p1", "p2"}        \* concurrent callers (requests in flight)
Requesters == {1, 2}         \* users typing /mtg close and /mtg cancel; users are numbered
Room == "R"
NoRoom == "none"             \* events.room_id is null
NULL == -1                   \* rooms.capacity is null (capacities are >= 0)
Choices == {"yes", "maybe", "no"}
Sources == {"auto", "manual"}

\* event_options rows: (id, event_id, start_at, end_at), unique (event_id, start_at, end_at)
Opt(i, e, s, t) == [id |-> i, event_id |-> e, start_at |-> s, end_at |-> t]
NoOpt == Opt("-", "-", 0, 0)

VARIABLES
  events,            \* events table: id -> [status, room_id, created_by, deadline_at]
  event_options,     \* set of event_options rows
  votes,             \* set of votes rows [event_option_id, slack_user_id, choice]
  capacity,          \* rooms.capacity of Room (NULL when unknown)
  bookings,          \* bag of bookings rows [event_id, room_id, start_at, end_at]: the uuid
                     \* key is left out, so rows that agree on these columns are counted
  attendance_logs,   \* set of rows [event_id, slack_user_id, decided_option_id, start_at, end_at]
  event_required_users, \* event id -> set of users
  user_profiles,     \* set of users having a profile row
  now,               \* the store's clock, now()
  reminders_sent,    \* set of reminders_sent rows [event_id, user_id, type]
  dms,               \* bag of the reminder messages posted: [event_id, user_id, type]
  notices,           \* set of the thread notices posted: <<event id, "decided" | "cancelled">>
  calendar,          \* set of the events entered in the external calendar
  down,              \* the external services whose calls fail: subset of {"slack", "gcal"}
  proc,              \* per caller: position in its handler and its locals
  calls              \* number of invocations started so far

vars == <<events, event_options, votes, capacity, bookings, attendance_logs,
          event_required_users, user_profiles, now, reminders_sent, dms, notices,
          calendar, down, proc, calls>>

store == <<events, event_options, votes, capacity, bookings, attendance_logs,
           event_required_users, user_profiles, now, reminders_sent, dms, notices,
           calendar, down>>
config == <<event_options, capacity, event_required_users, user_profiles, now>>
remind == <<reminders_sent, dms>>
outside == <<notices, calendar, down>>

\* ------------------------------------------------------------ vote ledger
Events == DOMAIN events
OptionsOf(e) == {o \in event_options : o.event_id = e}
OptionIds == {o.id : o \in event_options}
VotesOn(vs, oid, c) == {v \in vs : v.event_option_id = oid /\ v.choice = c}

\* count(*) filter (where v.choice = c) of the option's votes
Count(vs, oid, c) == Cardinality(VotesOn(vs, oid, c))

\* the grouped rows of the aggregate query of decideAndClose
Agg(e) == {[opt |-> o, yes |-> Count(votes, o.id, "yes"), maybe |-> Count(votes, o.id, "maybe")]
             : o \in OptionsOf(e)}

\* faulty variant: order by yes desc, maybe desc, start_at asc
BeforeMaybeDesc(a, b) ==
  \/ a.yes > b.yes
  \/ a.yes = b.yes /\ a.maybe > b.maybe
  \/ a.yes = b.yes /\ a.maybe = b.maybe /\ a.opt.start_at < b.opt.start_at

\* order by yes desc, maybe asc, start_at asc: a sorts strictly before b
Before(a, b) ==
  \/ a.yes > b.yes
  \/ a.yes = b.yes /\ a.maybe < b.maybe
  \/ a.yes = b.yes /\ a.maybe = b.maybe /\ a.opt.start_at < b.opt.start_at

\* the rows "limit 1" may return: those no other row sorts strictly before
\* (rows equal on all three keys come in an order the store does not fix)
FirstRows(rows) == {r \in rows : \A q \in rows : ~Before(q, r)}

\* faulty variant: a plain insert, the earlier row of the pair stays
UpsertInsertOnly(vs, oid, u, c) ==
  vs \cup {[event_option_id |-> oid, slack_user_id |-> u, choice |-> c]}

\* insert ... on conflict (event_option_id, slack_user_id) do update set choice
Upsert(vs, oid, u, c) ==
  {v \in vs : ~(v.event_option_id = oid /\ v.slack_user_id = u)}
    \cup {[event_option_id |-> oid, slack_user_id |-> u, choice |-> c]}

\* ------------------------------------------------------- capacity checker
\* faulty variant: closed intervals: a booking that only touches the slot overlaps it
OverlapsClosed(s, t, b) == ~(t < b.start_at \/ s > b.end_at)

\* not ($3 <= b.start_at or $2 >= b.end_at), $2 = start, $3 = end
Overlaps(s, t, b) == ~(t <= b.start_at \/ s >= b.end_at)

\* the "overlapping" CTE of the known-capacity query (excludes the event itself)
OverlappingEvents(r, s, t, e) ==
  {b.event_id : b \in {x \in BagToSet(bookings) :
                          x.room_id = r /\ Overlaps(s, t, x) /\ x.event_id # e}}

AlCount(e) == Cardinality({a \in attendance_logs : a.event_id = e})
RuCount(e) == Cardinality(event_required_users[e])

\* faulty variant: attendance rows and required users are added up
PerEventBoth(e) == AlCount(e) + RuCount(e)

\* case when al_count > 0 then al_count else ru_count end
PerEvent(e) == IF AlCount(e) > 0 THEN AlCount(e) ELSE RuCount(e)

RECURSIVE SumOver(_)
SumOver(S) == IF S = {} THEN 0
              ELSE LET e == CHOOSE x \in S : TRUE IN PerEvent(e) + SumOver(S \ {e})

\* existing.rows[0]?.attendees ?? 0
ExistingAttendees(r, s, t, e) == SumOver(OverlappingEvents(r, s, t, e))

\* the unknown-capacity query: any booking of the room that overlaps
AnyOverlap(r, s, t) == \E b \in BagToSet(bookings) : b.room_id = r /\ Overlaps(s, t, b)

\* --------------------------------------------------------------- callers
Idle == [pc |-> "idle", op |-> "-", ev |-> "-", source |-> "-", best |-> NoOpt,
         thisYes |-> 0, ret |-> [kind |-> "-"], won |-> FALSE, del |-> {}, due |-> <<>>,
         by |-> 0, kind |-> "-", users |-> <<>>, u |-> 0, token |-> FALSE]

Null(why) == [kind |-> "null", why |-> why]
Returned(o) == [kind |-> "best", opt |-> o]
\* faulty variant: the message reports the total in place of the existing head-count
CapacityErrorTotal(others, this, cap) ==
  [kind |-> "error", why |-> "capacity", existing |-> others + this, this |-> this, cap |-> cap]

\* the message of the Error thrown by the known-capacity branch carries the three numbers
CapacityError(others, this, cap) ==
  [kind |-> "error", why |-> "capacity", existing |-> others, this |-> this, cap |-> cap]
\* the message of the unknown-capacity branch carries none
OverlapError == [kind |-> "error", why |-> "overlap"]

Rejected(why) == [kind |-> "rejected", why |-> why]

\* the call returns r (or throws it) to its handler, which answers the user; in
\* the scheduler's batch, for (const row of due.rows) goes on with the next row
Finish(p, r) ==
  IF proc[p].op = "cron" /\ proc[p].due # <<>>
    THEN proc' = [proc EXCEPT ![p].pc = "agg", ![p].ev = Head(proc[p].due),
                              ![p].due = Tail(proc[p].due), ![p].best = NoOpt,
                              ![p].thisYes = 0, ![p].won = FALSE, ![p].ret = [kind |-> "-"]]
    ELSE proc' = [proc EXCEPT ![p].pc = "done", ![p].ret = r, ![p].best = NoOpt,
                              ![p].thisYes = 0, ![p].del = {}, ![p].by = 0]
Goto(p, pc) == proc' = [proc EXCEPT ![p].pc = pc]

\* ------------------------------------------------------- external services
\* chat.postMessage in the event's thread, inside try { } catch { /* ignore */ }
Posted(e, kind) == IF "slack" \in down THEN notices ELSE notices \cup {<<e, kind>>}

\* registerFixedEventToGCalOAuth inside try/catch: enters the event when it is
\* fixed and has a bookings row (bks: the bookings table at that moment)
Registered(e, bks) ==
  IF "gcal" \notin down /\ events[e].status = "fixed"
       /\ \E b \in BagToSet(bks) : b.event_id = e
    THEN calendar \cup {e} ELSE calendar

\* cancelFixedEventFromGCalOAuth inside try/catch: deletes the entry that the
\* event's bookings row refers to
Unregistered(e) ==
  IF "gcal" \notin down /\ \E b \in BagToSet(bookings) : b.event_id = e
    THEN calendar \ {e} ELSE calendar

\* ---------------------------------------------------------- decideAndClose
\* the aggregate query and "if (!agg.rowCount) return null"; the room row of
\* the event never changes, so its read is folded into the steps that use it
\* faulty variant: the capacity branch is entered whether or not the event has a room
DecideAggAlwaysChecks(p) ==
  /\ proc[p].pc = "agg"
  /\ LET e == proc[p].ev IN
       IF Agg(e) = {}
         THEN Finish(p, Null("no options"))
         ELSE \E r \in FirstRows(Agg(e)) :
                proc' = [proc EXCEPT ![p].best = r.opt, ![p].pc = "yes"]
  /\ UNCHANGED <<store, calls>>

\* faulty variant: an empty aggregate is an error
DecideAggThrows(p) ==
  /\ proc[p].pc = "agg"
  /\ LET e == proc[p].ev IN
       IF Agg(e) = {}
         THEN Finish(p, [kind |-> "error", why |-> "no options"])
         ELSE \E r \in FirstRows(Agg(e)) :
                proc' = [proc EXCEPT ![p].best = r.opt,
                                     ![p].pc = IF events[e].room_id = NoRoom THEN "update" ELSE "yes"]
  /\ UNCHANGED <<store, calls>>

DecideAgg(p) ==
  /\ proc[p].pc = "agg"
  /\ LET e == proc[p].ev IN
       IF Agg(e) = {}
         THEN Finish(p, Null("no options"))
         ELSE \E r \in FirstRows(Agg(e)) :
                proc' = [proc EXCEPT ![p].best = r.opt,
                                     ![p].pc = IF events[e].room_id = NoRoom THEN "update" ELSE "yes"]
  /\ UNCHANGED <<store, calls>>

\* select count(*) from votes where event_option_id = best.id and choice = 'yes'
DecideYes(p) ==
  /\ proc[p].pc = "yes"
  /\ proc' = [proc EXCEPT ![p].thisYes = Count(votes, proc[p].best.id, "yes"), ![p].pc = "cap"]
  /\ UNCHANGED <<store, calls>>

\* faulty variant: if (total >= cap): a full room is refused
CapacityVerdictAtCap(e, best, thisYes) ==
  LET r == events[e].room_id IN
    IF capacity # NULL
      THEN LET others == ExistingAttendees(r, best.start_at, best.end_at, e) IN
             IF others + thisYes >= capacity THEN CapacityError(others, thisYes, capacity)
             ELSE [kind |-> "ok"]
      ELSE IF AnyOverlap(r, best.start_at, best.end_at) THEN OverlapError
           ELSE [kind |-> "ok"]

\* faulty variant: the unknown-capacity branch is missing: a room without capacity is
\* never checked
CapacityVerdictKnownOnly(e, best, thisYes) ==
  LET r == events[e].room_id IN
    IF capacity # NULL
      THEN LET others == ExistingAttendees(r, best.start_at, best.end_at, e) IN
             IF others + thisYes > capacity THEN CapacityError(others, thisYes, capacity)
             ELSE [kind |-> "ok"]
      ELSE [kind |-> "ok"]

\* what the capacity branch decides: "ok", or the error it raises
CapacityVerdict(e, best, thisYes) ==
  LET r == events[e].room_id IN
    IF capacity # NULL
      THEN LET others == ExistingAttendees(r, best.start_at, best.end_at, e) IN
             IF others + thisYes > capacity THEN CapacityError(others, thisYes, capacity)
             ELSE [kind |-> "ok"]
      ELSE IF AnyOverlap(r, best.start_at, best.end_at) THEN OverlapError
           ELSE [kind |-> "ok"]

\* faulty variant: throw new Error(msg) whatever the source
DecideCapAlwaysThrow(p) ==
  /\ proc[p].pc = "cap"
  /\ LET v == CapacityVerdict(proc[p].ev, proc[p].best, proc[p].thisYes) IN
       IF v.kind = "ok" THEN Goto(p, "update") ELSE Finish(p, v)
  /\ UNCHANGED <<store, calls>>

\* manual: throw; auto: return null
DecideCap(p) ==
  /\ proc[p].pc = "cap"
  /\ LET v == CapacityVerdict(proc[p].ev, proc[p].best, proc[p].thisYes) IN
       IF v.kind = "ok" THEN Goto(p, "update")
       ELSE IF proc[p].source = "manual" THEN Finish(p, v)
       ELSE Finish(p, Null("capacity"))
  /\ UNCHANGED <<store, calls>>

\* faulty variant: the update without its status condition: where id = $1
UpdateGuardAnyStatus(e) == e \in DOMAIN events

\* update events set status='fixed' where id = $1 and status='planning'
UpdateGuard(e) == events[e].status = "planning"

\* faulty variant: "if (!ev.rowCount) return null" is missing: the call goes on
\* when the update matched no row
DecideUpdateNoReturn(p) ==
  /\ proc[p].pc = "update"
  /\ LET e == proc[p].ev IN
       IF UpdateGuard(e)
         THEN /\ events' = [events EXCEPT ![e].status = "fixed"]
              /\ proc' = [proc EXCEPT ![p].pc = "snapshot", ![p].won = TRUE]
         ELSE /\ Goto(p, "snapshot")
              /\ UNCHANGED events
  /\ UNCHANGED <<config, remind, outside, votes, bookings, attendance_logs, calls>>

DecideUpdate(p) ==
  /\ proc[p].pc = "update"
  /\ LET e == proc[p].ev IN
       IF UpdateGuard(e)
         THEN /\ events' = [events EXCEPT ![e].status = "fixed"]
              /\ proc' = [proc EXCEPT ![p].pc = "snapshot", ![p].won = TRUE]
         ELSE /\ Finish(p, Null("already decided"))
              /\ UNCHANGED events
  /\ UNCHANGED <<config, remind, outside, votes, bookings, attendance_logs, calls>>

\* insert into attendance_logs ... join user_profiles ... on conflict (event_id, slack_user_id) do nothing
Snapshot(e, best) ==
  {[event_id |-> e, slack_user_id |-> v.slack_user_id, decided_option_id |-> best.id,
    start_at |-> best.start_at, end_at |-> best.end_at]
     : v \in {x \in VotesOn(votes, best.id, "yes") : x.slack_user_id \in user_profiles}}

DecideSnapshot(p) ==
  /\ proc[p].pc = "snapshot"
  /\ LET new == {a \in Snapshot(proc[p].ev, proc[p].best) :
                   ~\E x \in attendance_logs :
                       x.event_id = a.event_id /\ x.slack_user_id = a.slack_user_id} IN
       attendance_logs' = attendance_logs \cup new
  /\ Goto(p, "booking")
  /\ UNCHANGED <<config, remind, outside, events, votes, bookings, calls>>

\* unique (event_id) [004] and unique (room_id, start_at, end_at) [001]; a null
\* room_id never equals another
BookingConflict(b, x) ==
  \/ b.event_id = x.event_id
  \/ b.room_id # NoRoom /\ b.room_id = x.room_id /\ b.start_at = x.start_at /\ b.end_at = x.end_at

\* insert into bookings ... on conflict do nothing
InsertBooking(bks, b) ==
  IF \E x \in BagToSet(bks) : BookingConflict(b, x) THEN bks ELSE bks (+) SetToBag({b})

\* the booking insert; the thread notice and the calendar registration that
\* follow are best-effort and write none of the modelled columns; "return best"
DecideBooking(p) ==
  /\ proc[p].pc = "booking"
  /\ LET e == proc[p].ev
         best == proc[p].best IN
       /\ bookings' = InsertBooking(bookings,
                        [event_id |-> e, room_id |-> events[e].room_id,
                         start_at |-> best.start_at, end_at |-> best.end_at])
       /\ notices' = Posted(e, "decided")
       /\ calendar' = Registered(e, bookings')
  /\ Finish(p, Returned(proc[p].best))
  /\ UNCHANGED <<config, remind, down, events, votes, attendance_logs, calls>>

\* faulty variant: decideAndClose with neither idempotency guard: the update is not
\* conditional on the status and the insert runs against a bookings table that
\* has no unique constraint
DecideUpdateAnyStatus(p) ==
  /\ proc[p].pc = "update"
  /\ events' = [events EXCEPT ![proc[p].ev].status = "fixed"]
  /\ proc' = [proc EXCEPT ![p].pc = "snapshot", ![p].won = TRUE]
  /\ UNCHANGED <<config, remind, outside, votes, bookings, attendance_logs, calls>>

DecideBookingPlainInsert(p) ==
  /\ proc[p].pc = "booking"
  /\ bookings' = bookings (+) SetToBag({[event_id |-> proc[p].ev,
                                          room_id |-> events[proc[p].ev].room_id,
                                          start_at |-> proc[p].best.start_at,
                                          end_at |-> proc[p].best.end_at]})
  /\ Finish(p, Returned(proc[p].best))
  /\ UNCHANGED <<config, remind, outside, events, votes, attendance_logs, calls>>

decideAndCloseUnguarded(p) ==
  \/ DecideAgg(p) \/ DecideYes(p) \/ DecideCap(p) \/ DecideUpdateAnyStatus(p)
  \/ DecideSnapshot(p) \/ DecideBookingPlainInsert(p)

decideAndClose(p) ==
  \/ DecideAgg(p) \/ DecideYes(p) \/ DecideCap(p) \/ DecideUpdate(p)
  \/ DecideSnapshot(p) \/ DecideBooking(p)

\* p has no request in progress (its last answer, if any, stays readable in ret);
\* callers are interchangeable, so a new request goes to the first free one
Free(p) == proc[p].pc \in {"idle", "done"}
Ready(p) == Free(p) /\ (p = "p1" \/ ~Free("p1"))

\* ------------------------------------------------------------- /mtg close
\* faulty variant: no creator check
CloseHandlerNoCreatorCheck(p, e, u) ==
  /\ Ready(p) /\ calls < MaxCalls
  /\ calls' = calls + 1
  /\ LET q == [Idle EXCEPT !.op = "close", !.ev = e, !.by = u] IN
       IF events[e].status # "planning"
         THEN proc' = [proc EXCEPT ![p] = [q EXCEPT !.pc = "done", !.ret = Rejected("invalid state")]]
       ELSE proc' = [proc EXCEPT ![p] = [q EXCEPT !.pc = "agg", !.source = "manual"]]
  /\ UNCHANGED store

\* status check, then creator check, then decideAndClose(eventId, 'manual')
CloseHandler(p, e, u) ==
  /\ Ready(p) /\ calls < MaxCalls
  /\ calls' = calls + 1
  /\ LET q == [Idle EXCEPT !.op = "close", !.ev = e, !.by = u] IN
       IF events[e].status # "planning"
         THEN proc' = [proc EXCEPT ![p] = [q EXCEPT !.pc = "done", !.ret = Rejected("invalid state")]]
       ELSE IF events[e].created_by # u
         THEN proc' = [proc EXCEPT ![p] = [q EXCEPT !.pc = "done", !.ret = Rejected("permission denied")]]
       ELSE proc' = [proc EXCEPT ![p] = [q EXCEPT !.pc = "agg", !.source = "manual"]]
  /\ UNCHANGED store

\* ------------------------------------------------------------ /mtg cancel
\* faulty variant: no status check
CancelHandlerNoStatusCheck(p, e, u) ==
  /\ Ready(p) /\ calls < MaxCalls
  /\ calls' = calls + 1
  /\ LET q == [Idle EXCEPT !.op = "cancel", !.ev = e, !.by = u] IN
       IF events[e].created_by # u
         THEN proc' = [proc EXCEPT ![p] = [q EXCEPT !.pc = "done", !.ret = Rejected("permission denied")]]
       ELSE proc' = [proc EXCEPT ![p] = [q EXCEPT !.pc = "c_delete"]]
  /\ UNCHANGED store

\* status check, then creator check, then cancelEvent(eventId); the select of
\* cancelEvent reads columns that never change and is folded into this step
CancelHandler(p, e, u) ==
  /\ Ready(p) /\ calls < MaxCalls
  /\ calls' = calls + 1
  /\ LET q == [Idle EXCEPT !.op = "cancel", !.ev = e, !.by = u] IN
       IF events[e].status = "closed"
         THEN proc' = [proc EXCEPT ![p] = [q EXCEPT !.pc = "done", !.ret = Rejected("already cancelled")]]
       ELSE IF events[e].created_by # u
         THEN proc' = [proc EXCEPT ![p] = [q EXCEPT !.pc = "done", !.ret = Rejected("permission denied")]]
       ELSE proc' = [proc EXCEPT ![p] = [q EXCEPT !.pc = "c_delete"]]
  /\ UNCHANGED store

\* faulty variant: the calendar deletion is not inside try/catch: its failure
\* ends the call
CancelDeleteCalendarFirst(p) ==
  /\ proc[p].pc = "c_delete"
  /\ calendar' = Unregistered(proc[p].ev)
  /\ IF "gcal" \in down
       THEN Finish(p, [kind |-> "error", why |-> "calendar"]) /\ UNCHANGED bookings
       ELSE LET mine == {b \in BagToSet(bookings) : b.event_id = proc[p].ev} IN
              /\ bookings' = [b \in BagToSet(bookings) \ mine |-> bookings[b]]
              /\ proc' = [proc EXCEPT ![p].del = mine, ![p].pc = "c_close"]
  /\ UNCHANGED <<config, remind, notices, down, events, votes, attendance_logs, calls>>

\* the best-effort calendar deletion, then
\* delete from bookings where event_id=$1 returning start_at, end_at
CancelDelete(p) ==
  /\ proc[p].pc = "c_delete"
  /\ calendar' = Unregistered(proc[p].ev)
  /\ LET mine == {b \in BagToSet(bookings) : b.event_id = proc[p].ev} IN
       /\ bookings' = [b \in BagToSet(bookings) \ mine |-> bookings[b]]
       /\ proc' = [proc EXCEPT ![p].del = mine, ![p].pc = "c_close"]
  /\ UNCHANGED <<config, remind, notices, down, events, votes, attendance_logs, calls>>

\* faulty variant: closing the event also drops its attendance rows
CancelClosePurge(p) ==
  /\ proc[p].pc = "c_close"
  /\ events' = [events EXCEPT ![proc[p].ev].status = "closed"]
  /\ attendance_logs' = {a \in attendance_logs : a.event_id # proc[p].ev}
  /\ notices' = Posted(proc[p].ev, "cancelled")
  /\ IF proc[p].del = {}
       THEN Finish(p, Null("no booking"))
       ELSE \E b \in proc[p].del :
              Finish(p, [kind |-> "interval", start_at |-> b.start_at, end_at |-> b.end_at])
  /\ UNCHANGED <<config, remind, calendar, down, votes, bookings, calls>>

\* update events set status='closed' where id=$1; the best-effort thread notice;
\* return del.rowCount ? {start_at, end_at} : null
CancelClose(p) ==
  /\ proc[p].pc = "c_close"
  /\ events' = [events EXCEPT ![proc[p].ev].status = "closed"]
  /\ notices' = Posted(proc[p].ev, "cancelled")
  /\ IF proc[p].del = {}
       THEN Finish(p, Null("no booking"))
       ELSE \E b \in proc[p].del :
              Finish(p, [kind |-> "interval", start_at |-> b.start_at, end_at |-> b.end_at])
  /\ UNCHANGED <<config, remind, calendar, down, votes, bookings, attendance_logs, calls>>

cancelEvent(p) == CancelDelete(p) \/ CancelClose(p)

\* ------------------------------------------------------------ voteHandler
\* faulty variant: votes.event_option_id without its foreign key
VoteInsertNoForeignKey(vs, oid, u, c) == Upsert(vs, oid, u, c)

\* faulty variant: the handler looks at the status and drops a vote on an event that
\* is no longer planning
VoteInsertPlanningOnly(vs, oid, u, c) ==
  IF \E o \in event_options : o.id = oid /\ events[o.event_id].status = "planning"
    THEN Upsert(vs, oid, u, c) ELSE vs

\* event_option_id references event_options(id): for a slot that does not exist
\* the statement is rejected by the foreign key and no row is written
VoteInsert(vs, oid, u, c) == IF oid \in OptionIds THEN Upsert(vs, oid, u, c) ELSE vs

\* the upsert of one vote; the message refresh that follows writes nothing
voteHandler(oid, u, c) ==
  /\ votes' = VoteInsert(votes, oid, u, c)
  /\ UNCHANGED <<config, remind, outside, events, bookings, attendance_logs, proc, calls>>

\* ---------------------------------------------------------- the scheduler
BatchLimit == 10

\* faulty variant: the scan does not look at the status
DueAnyStatus(e) == events[e].deadline_at <= now

\* status='planning' and deadline_at <= now()
Due(e) == events[e].status = "planning" /\ events[e].deadline_at <= now

\* the first n rows of D by ascending deadline; rows of equal deadline come in
\* any order
RECURSIVE Batches(_, _)
Batches(D, n) ==
  IF n = 0 \/ D = {} THEN {<<>>}
  ELSE UNION {{<<e>> \o s : s \in Batches(D \ {e}, n - 1)} :
                e \in {x \in D : \A y \in D : events[x].deadline_at <= events[y].deadline_at}}

\* order by deadline_at asc limit 10: the orders the store may return
DueBatches == Batches({e \in Events : Due(e)}, BatchLimit)

\* the scan, then for (const row of due.rows) await decideAndClose(row.id, 'auto')
AutoDecideScan(p) ==
  /\ \E s \in DueBatches :
       LET q == [Idle EXCEPT !.op = "cron", !.source = "auto"] IN
         IF s = <<>>
           THEN proc' = [proc EXCEPT ![p] = [q EXCEPT !.pc = "done"]]
           ELSE proc' = [proc EXCEPT ![p] = [q EXCEPT !.pc = "agg", !.ev = s[1], !.due = Tail(s)]]
  /\ UNCHANGED store

\* one run of the scheduler, out of the bounded number of calls
CronScan(p) ==
  /\ Ready(p) /\ calls < MaxCalls
  /\ calls' = calls + 1
  /\ AutoDecideScan(p)

\* cron.schedule('*/10 * * * *', ...): the scheduler fires every ten minutes, without end
CronTick(p) ==
  /\ Ready(p)
  /\ AutoDecideScan(p)
  /\ UNCHANGED calls

\* ------------------------------------------------- the reminder scans
\* the part of the scheduler's tick that follows the auto-decide loop
VoteLead == 1440
JoinLead == 60

\* the orders in which a query without "order by" may return the rows S
Orders(S) == {s \in [1..Cardinality(S) -> S] : \A i, j \in 1..Cardinality(S) : i # j => s[i] # s[j]}

\* status='planning' and now() >= deadline_at - make_interval(mins => coalesce(..., 24*60))
VoteDue(e) == events[e].status = "planning" /\ now >= events[e].deadline_at - VoteLead

\* faulty variant: the join scan has no time condition
JoinDueNoWindow(e) ==
  /\ events[e].status = "fixed"
  /\ \E b \in BagToSet(bookings) : b.event_id = e

\* e.status='fixed', joined with its bookings, now() >= b.start_at - make_interval(mins => coalesce(..., 60))
JoinDue(e) ==
  /\ events[e].status = "fixed"
  /\ \E b \in BagToSet(bookings) : b.event_id = e /\ now >= b.start_at - JoinLead

\* faulty variant: the scan does not look at the votes
HasVotedNever(e, u) == e \notin Events /\ u = u

\* select 1 from votes v join event_options eo ... where eo.event_id=$1 and v.slack_user_id=$2
HasVoted(e, u) ==
  \E v \in votes : v.slack_user_id = u /\ \E o \in OptionsOf(e) : o.id = v.event_option_id

Ticket(p) == [event_id |-> proc[p].ev, user_id |-> proc[p].u, type |-> proc[p].kind]

\* faulty variant: reminders_sent without its unique constraint: the insert always returns a row
GrantedAlways(t) == t = t

\* insert ... on conflict do nothing returning id: token.rowCount
Granted(t) == t \notin reminders_sent

\* the join scan: joinDue, or the end of the tick when no row is due
ToJoinScan(p) == [proc[p] EXCEPT !.pc = "j_scan", !.kind = "join", !.due = <<>>, !.users = <<>>,
                                 !.u = 0, !.token = FALSE, !.ev = "-"]
Scanned(p) == [Idle EXCEPT !.pc = "done", !.op = "remind", !.ret = [kind |-> "scanned"]]

\* the first statement of the loop body: the vote scan asks whether the user
\* has voted, the join scan goes straight to the insert
FirstStep(kind) == IF kind = "vote" THEN "voted" ELSE "claim"

\* "continue" and the loop headers: the next user of the event, else the next
\* event of the scan, else the next scan
Continue(p) ==
  LET q == [proc[p] EXCEPT !.token = FALSE, !.u = 0] IN
    IF q.users # <<>> THEN [q EXCEPT !.pc = FirstStep(q.kind), !.u = Head(q.users), !.users = Tail(q.users)]
    ELSE IF q.due # <<>> THEN [q EXCEPT !.pc = "event", !.ev = Head(q.due), !.due = Tail(q.due)]
    ELSE IF q.kind = "vote" THEN ToJoinScan(p)
    ELSE Scanned(p)

\* the voteDue query
ReminderScan(p) ==
  /\ Ready(p) /\ calls < MaxCalls
  /\ calls' = calls + 1
  /\ \E s \in Orders({e \in Events : VoteDue(e)}) :
       LET q == [Idle EXCEPT !.op = "remind", !.kind = "vote", !.due = s] IN
         proc' = [proc EXCEPT ![p] = IF s = <<>> THEN [q EXCEPT !.pc = "j_scan", !.kind = "join"]
                                     ELSE [q EXCEPT !.pc = "event", !.ev = s[1], !.due = Tail(s)]]
  /\ UNCHANGED store

\* the joinDue query
JoinScan(p) ==
  /\ proc[p].pc = "j_scan"
  /\ \E s \in Orders({e \in Events : JoinDue(e)}) :
       proc' = [proc EXCEPT ![p] = IF s = <<>> THEN Scanned(p)
                                   ELSE [proc[p] EXCEPT !.pc = "event", !.ev = s[1], !.due = Tail(s)]]
  /\ UNCHANGED <<store, calls>>

\* faulty variant: both scans go through every known user
ScanEventAllUsers(p) ==
  /\ proc[p].pc = "event"
  /\ \E s \in Orders(user_profiles) :
       proc' = [proc EXCEPT ![p] = IF s = <<>> THEN Continue(p)
                                   ELSE [proc[p] EXCEPT !.pc = FirstStep(proc[p].kind), !.u = s[1],
                                                        !.users = Tail(s)]]
  /\ UNCHANGED <<store, calls>>

\* the event's meta (best-effort), then its users: event_required_users for a
\* vote reminder, attendance_logs for a join reminder
ScanEvent(p) ==
  /\ proc[p].pc = "event"
  /\ LET e == proc[p].ev
         U == IF proc[p].kind = "vote" THEN event_required_users[e]
              ELSE {a.slack_user_id : a \in {x \in attendance_logs : x.event_id = e}} IN
       \E s \in Orders(U) :
         proc' = [proc EXCEPT ![p] = IF s = <<>> THEN Continue(p)
                                     ELSE [proc[p] EXCEPT !.pc = FirstStep(proc[p].kind), !.u = s[1],
                                                          !.users = Tail(s)]]
  /\ UNCHANGED <<store, calls>>

\* if (voted.rowCount) continue
VotedCheck(p) ==
  /\ proc[p].pc = "voted"
  /\ proc' = [proc EXCEPT ![p] = IF HasVoted(proc[p].ev, proc[p].u) THEN Continue(p)
                                 ELSE [proc[p] EXCEPT !.pc = "claim"]]
  /\ UNCHANGED <<store, calls>>

\* faulty variant: the send is not conditional on the insert: no "if (!token.rowCount) continue"
ClaimThenSendAnyway(p) ==
  /\ proc[p].pc = "claim"
  /\ reminders_sent' = reminders_sent \cup {Ticket(p)}
  /\ proc' = [proc EXCEPT ![p].pc = "send", ![p].token = Granted(Ticket(p))]
  /\ UNCHANGED <<config, outside, events, votes, bookings, attendance_logs, dms, calls>>

\* insert into reminders_sent ... on conflict do nothing returning id;
\* if (!token.rowCount) continue
Claim(p) ==
  /\ proc[p].pc = "claim"
  /\ IF Granted(Ticket(p))
       THEN /\ reminders_sent' = reminders_sent \cup {Ticket(p)}
            /\ proc' = [proc EXCEPT ![p].pc = "send", ![p].token = TRUE]
       ELSE /\ proc' = [proc EXCEPT ![p] = Continue(p)]
            /\ UNCHANGED reminders_sent
  /\ UNCHANGED <<config, outside, events, votes, bookings, attendance_logs, dms, calls>>

\* conversations.open and chat.postMessage to the user, inside try/catch
Send(p) ==
  /\ proc[p].pc = "send"
  /\ dms' = IF "slack" \in down THEN dms ELSE dms (+) SetToBag({Ticket(p)})
  /\ proc' = [proc EXCEPT ![p] = Continue(p)]
  /\ UNCHANGED <<config, outside, events, votes, bookings, attendance_logs, reminders_sent, calls>>

\* the process dies between the insert and the send
Crash(p) ==
  /\ proc[p].pc = "send"
  /\ proc' = [proc EXCEPT ![p] = [Idle EXCEPT !.pc = "done", !.op = "remind",
                                              !.ret = [kind |-> "crashed"]]]
  /\ UNCHANGED <<store, calls>>

Reminders(p) ==
  \/ JoinScan(p) \/ ScanEvent(p) \/ VotedCheck(p) \/ Claim(p) \/ Send(p)

\* ------------------------------------------------------ the whole program
\* a freshly created event: planning, created by user 1, deadline reached
NewEvent(r) == [status |-> "planning", room_id |-> r, created_by |-> 1, deadline_at |-> 0]

\* the first y of the numbered users vote yes on oid, the next m vote maybe
CastVotes(oid, y, m) ==
  {[event_option_id |-> oid, slack_user_id |-> u, choice |-> "yes"] : u \in 1..y}
    \cup {[event_option_id |-> oid, slack_user_id |-> u, choice |-> "maybe"] : u \in (y+1)..(y+m)}

\* p is inside decideAndClose(e, src), about to run its first statement
Calling(e, src) == [Idle EXCEPT !.pc = "agg", !.op = "decide", !.ev = e, !.source = src]

\* Spec: two events with overlapping slots in one room, of unknown capacity or of
\* capacity 1; callers issue close, cancel and scheduler runs while user 1 votes
SpecRooms == {<<Room, NULL>>, <<Room, 1>>}
SpecOptions == {Opt("o1", "e1", 1, 3), Opt("o3", "e2", 2, 4)}
SpecVoters == {1}

Init ==
  /\ \E c \in SpecRooms :
       /\ events = [e \in {"e1", "e2"} |-> NewEvent(IF e = "e1" THEN c[1] ELSE Room)]
       /\ capacity = c[2]
  /\ event_options = SpecOptions
  /\ votes = {}
  /\ bookings = EmptyBag
  /\ attendance_logs = {}
  /\ event_required_users = [e \in {"e1", "e2"} |-> IF e = "e1" THEN {1} ELSE {1, 2}]
  /\ user_profiles = {1}
  /\ now = 0
  /\ proc = [p \in Procs |-> Idle]
  /\ calls = 0
  /\ reminders_sent = {} /\ dms = EmptyBag
  /\ notices = {} /\ calendar = {} /\ down = {}

Next ==
  \/ \E p \in Procs : decideAndClose(p)
  \/ \E p \in Procs : cancelEvent(p)
  \/ \E p \in Procs, e \in Events, u \in Requesters : CloseHandler(p, e, u)
  \/ \E p \in Procs, e \in Events, u \in Requesters : CancelHandler(p, e, u)
  \/ \E o \in OptionIds, u \in SpecVoters, c \in Choices : voteHandler(o, u, c)
  \/ \E p \in Procs : CronScan(p)

Spec == Init /\ [][Next]_vars

\* ------------------------------------------- two decide calls on one event
\* e1 is planning with two slots of equal start; e2 is planning, or already
\* fixed with its booking (and its attendance rows, if its voter has a profile)
RaceOptions == {Opt("o1", "e1", 1, 2), Opt("o2", "e1", 1, 3), Opt("o3", "e2", 1, 2)}
BookingOf(e, r, o) == [event_id |-> e, room_id |-> r, start_at |-> o.start_at, end_at |-> o.end_at]
LogOf(e, u, o) == [event_id |-> e, slack_user_id |-> u, decided_option_id |-> o.id,
                   start_at |-> o.start_at, end_at |-> o.end_at]

InitRace ==
  /\ \E r1 \in {NoRoom, Room}, st2 \in {"planning", "fixed"} :
       /\ events = [e \in {"e1", "e2"} |->
                      IF e = "e1" THEN NewEvent(r1) ELSE [NewEvent(Room) EXCEPT !.status = st2]]
       /\ \E n \in 0..1 :
            /\ bookings = IF st2 = "fixed" THEN SetToBag({BookingOf("e2", Room, Opt("o3", "e2", 1, 2))})
                          ELSE EmptyBag
            /\ attendance_logs = IF st2 = "fixed"
                                   THEN {LogOf("e2", u, Opt("o3", "e2", 1, 2)) : u \in 1..n}
                                   ELSE {}
            /\ \E y1, m1, y2, m2 \in 0..1 :
                 votes = CastVotes("o1", y1, m1) \cup CastVotes("o2", y2, m2)
                           \cup IF st2 = "fixed" THEN CastVotes("o3", n, 0) ELSE {}
  /\ capacity \in {NULL} \cup (0..MaxCap)
  /\ event_options = RaceOptions
  /\ event_required_users = [e \in {"e1", "e2"} |-> IF e = "e1" THEN {1} ELSE {1, 2}]
  /\ user_profiles = {1, 2}
  /\ now = 0
  /\ \E s1, s2 \in Sources : proc = [p \in Procs |-> Calling("e1", IF p = "p1" THEN s1 ELSE s2)]
  /\ calls = 0
  /\ reminders_sent = {} /\ dms = EmptyBag
  /\ notices = {}
  /\ down \in {{}, {"slack", "gcal"}}
  /\ calendar = {}

NextRace == \E p \in Procs : decideAndClose(p)

SpecRace == InitRace /\ [][NextRace]_vars

\* ------------------------------------------------- selection of the winner
\* e1 has no room; both callers run the selection on the same votes
SelectOptions ==
  { {Opt("A", "e1", 10, 11), Opt("B", "e1", 14, 15), Opt("C", "e1", 9, 10)},
    {Opt("A", "e1", 10, 11), Opt("B", "e1", 14, 15)},
    {Opt("A", "e1", 10, 11), Opt("B", "e1", 10, 12)} }

InitSelect ==
  /\ events = [e \in {"e1"} |-> NewEvent(NoRoom)]
  /\ event_options \in SelectOptions
  /\ \E y \in [{"A", "B", "C"} -> 0..MaxYes], m \in [{"A", "B", "C"} -> 0..MaxMaybe] :
       /\ \A i \in {"A", "B", "C"} \ OptionIds : y[i] = 0 /\ m[i] = 0
       /\ votes = UNION {CastVotes(i, y[i], m[i]) : i \in OptionIds}
  /\ capacity = NULL
  /\ bookings = EmptyBag
  /\ attendance_logs = {}
  /\ event_required_users = [e \in {"e1"} |-> {}]
  /\ user_profiles = 1..(MaxYes + MaxMaybe)
  /\ now = 0
  /\ proc = [p \in Procs |-> Calling("e1", "manual")]
  /\ calls = 0
  /\ reminders_sent = {} /\ dms = EmptyBag
  /\ notices = {} /\ calendar = {} /\ down = {}

NextSelect ==
  \E p \in Procs : DecideAgg(p) \/ DecideUpdate(p) \/ DecideSnapshot(p) \/ DecideBooking(p)

SpecSelect == InitSelect /\ [][NextSelect]_vars

\* ------------------------------------------------ one decide call, by room
\* e1 (one slot, 2..4) is decided by a single caller; e2 and e3 each hold a
\* booking of the room that overlaps the slot or only touches it (before or
\* after), or hold none
CapOptions ==
  {Opt("o1", "e1", 2, 4),
   Opt("o3", "e2", 1, 3), Opt("o4", "e2", 4, 5), Opt("o5", "e2", 1, 2),
   Opt("o6", "e3", 3, 5), Opt("o7", "e3", 4, 6)}

InitCap ==
  /\ \E s2, s3 \in {"planning", "fixed"} :
       events = [e \in {"e1", "e2", "e3"} |->
                   [NewEvent(Room) EXCEPT !.status = IF e = "e2" THEN s2
                                                     ELSE IF e = "e3" THEN s3 ELSE "planning"]]
  /\ event_options = CapOptions
  /\ \E y \in 0..MaxAttendees, n \in 0..MaxAttendees, m \in 0..MaxAttendees,
        o \in OptionsOf("e2"), q \in OptionsOf("e3") :
       LET Fixed2 == events["e2"].status = "fixed"
           Fixed3 == events["e3"].status = "fixed" IN
         /\ bookings = (IF Fixed2 THEN SetToBag({BookingOf("e2", Room, o)}) ELSE EmptyBag)
                         (+) (IF Fixed3 THEN SetToBag({BookingOf("e3", Room, q)}) ELSE EmptyBag)
         /\ attendance_logs = (IF Fixed2 THEN {LogOf("e2", u, o) : u \in 1..n} ELSE {})
                                \cup (IF Fixed3 THEN {LogOf("e3", u, q) : u \in 1..m} ELSE {})
         /\ votes = CastVotes("o1", y, 0)
                      \cup (IF Fixed2 THEN CastVotes(o.id, n, 0) ELSE {})
                      \cup (IF Fixed3 THEN CastVotes(q.id, m, 0) ELSE {})
  /\ capacity \in {NULL} \cup (0..MaxCap)
  /\ event_required_users = [e \in {"e1", "e2", "e3"} |->
                               IF e = "e1" THEN {1} ELSE IF e = "e2" THEN {1, 2} ELSE {3}]
  /\ user_profiles = 1..MaxAttendees
  /\ now = 0
  /\ \E src \in Sources : proc = [p \in Procs |-> IF p = "p1" THEN Calling("e1", src) ELSE Idle]
  /\ calls = 0
  /\ reminders_sent = {} /\ dms = EmptyBag
  /\ notices = {} /\ calendar = {} /\ down \in SUBSET {"slack", "gcal"}

NextCap == decideAndClose("p1")

SpecCap == InitCap /\ [][NextCap]_vars

\* =================================================================== claims
BookingsOf(e) == {b \in BagToSet(bookings) : b.event_id = e}
\* the number of bookings rows of event e
BookingCount(e) == BagCardinality([b \in BookingsOf(e) |-> bookings[b]])
LogsOf(e) == {a \in attendance_logs : a.event_id = e}
AllDone == \A p \in Procs : proc[p].pc = "done"
Winners == {p \in Procs : proc[p].won}
\* the call ended in the capacity branch: the error was thrown, or auto returned null
Refused(p) ==
  /\ proc[p].pc = "done"
  /\ \/ proc[p].ret.kind = "error"
     \/ proc[p].ret.kind = "null" /\ proc[p].ret.why = "capacity"

\* C1: when two decide calls on a planning event with candidate slots have both
\* returned, neither turned away by the capacity check, exactly one of them made
\* the planning->fixed transition, the event has exactly one Booking row, and its
\* attendance rows are one snapshot: one slot, each voter at most once.
C1_ExactlyOneDecision ==
  (AllDone /\ \A p \in Procs : ~Refused(p)) =>
     /\ Cardinality(Winners) = 1
     /\ BookingCount("e1") = 1
     /\ \A a, b \in LogsOf("e1") :
          /\ a.decided_option_id = b.decided_option_id
          /\ a.slack_user_id = b.slack_user_id => a = b

\* C2: when two decide calls race, the one that does not win the conditional
\* update ends with the benign null return, never with an error, whatever the
\* room configuration and the triggers.
C2_LoserReturnsNull ==
  \A p \in Procs :
    (AllDone /\ ~proc[p].won /\ Winners # {}) => proc[p].ret.kind = "null"

\* C4: a decide call that returns after making the transition leaves exactly one
\* Booking row for the event, on the winning slot's interval and the event's room.
C4_BookingAfterDecide ==
  \A p \in Procs :
    (proc[p].pc = "done" /\ proc[p].ret.kind = "best") =>
       /\ BookingCount(proc[p].ev) = 1
       /\ BookingsOf(proc[p].ev) =
            {BookingOf(proc[p].ev, events[proc[p].ev].room_id, proc[p].ret.opt)}

\* C3: an event's status changes only planning->fixed, by the decide call whose
\* conditional update succeeds, or planning->closed and fixed->closed, by cancel;
\* closed never changes again and fixed never returns to planning.
StatusStepAllowed(e) ==
  LET a == events[e].status
      b == events'[e].status IN
    a # b =>
      \/ /\ a = "planning" /\ b = "fixed"
         /\ \E p \in Procs : /\ proc[p].ev = e /\ proc[p].pc = "update"
                             /\ proc'[p].pc = "snapshot" /\ proc'[p].won
      \/ /\ a \in {"planning", "fixed"} /\ b = "closed"
         /\ \E p \in Procs : proc[p].ev = e /\ proc[p].op = "cancel" /\ proc[p].pc = "c_close"

C3_StatusTransitions == [][\A e \in DOMAIN events : StatusStepAllowed(e)]_vars

\* a decide call on e1 passed its checks, cancel then closed the event, and the
\* decide call's update found it closed
C3_Witness ==
  /\ events["e1"].status = "closed"
  /\ \E p, q \in Procs :
       /\ proc[p].op = "close" /\ proc[p].ev = "e1" /\ proc[p].pc = "done"
       /\ proc[p].ret = Null("already decided")
       /\ proc[q].op = "cancel" /\ proc[q].ev = "e1" /\ proc[q].pc = "done"

\* C5: in every reachable state each event has at most one Booking row.
C5_AtMostOneBooking == \A e \in DOMAIN events : BookingCount(e) <= 1

\* both events hold their booking, one of them written while a cancel of the
\* same event was in progress
C5_Witness ==
  /\ BookingCount("e1") = 1 /\ BookingCount("e2") = 1
  /\ \E q \in Procs : proc[q].op = "cancel" /\ proc[q].pc \in {"c_close", "done"}

\* ---- winner selection
\* the slot a call has selected, or returned to its caller
Selected(p) ==
  IF proc[p].best # NoOpt THEN proc[p].best
  ELSE IF proc[p].pc = "done" /\ proc[p].ret.kind = "best" THEN proc[p].ret.opt
  ELSE NoOpt

Yes(o) == Cardinality({u \in user_profiles :
            [event_option_id |-> o.id, slack_user_id |-> u, choice |-> "yes"] \in votes})
Maybe(o) == Cardinality({u \in user_profiles :
            [event_option_id |-> o.id, slack_user_id |-> u, choice |-> "maybe"] \in votes})

\* slot a precedes slot b under the comparator of the claim
Precedes(a, b) ==
  \/ Yes(a) > Yes(b)
  \/ Yes(a) = Yes(b) /\ Maybe(a) < Maybe(b)
  \/ Yes(a) = Yes(b) /\ Maybe(a) = Maybe(b) /\ a.start_at < b.start_at

Slot(i) == CHOOSE o \in event_options : o.id = i
Has(i) == \E o \in event_options : o.id = i
Tally(i, y, m) == Has(i) /\ Yes(Slot(i)) = y /\ Maybe(Slot(i)) = m

\* C6: the slot a decide call selects, and returns, is a minimum of the event's
\* slots under yes descending, maybe ascending, start ascending: no slot of the
\* event precedes it; among A(3,1), B(3,0), C(5,2) it is C, and without C it is B.
C6_WinnerIsMinimum ==
  \A p \in Procs :
    Selected(p) # NoOpt =>
      /\ Selected(p) \in event_options /\ Selected(p).event_id = proc[p].ev
      /\ \A o \in event_options : o.event_id = proc[p].ev => ~Precedes(o, Selected(p))
      /\ (Tally("A", 3, 1) /\ Tally("B", 3, 0) /\ Tally("C", 5, 2)) => Selected(p).id = "C"
      /\ (Tally("A", 3, 1) /\ Tally("B", 3, 0) /\ ~Has("C")) => Selected(p).id = "B"

\* the example of the claim: C is returned to the caller
C6_Witness ==
  /\ Tally("A", 3, 1) /\ Tally("B", 3, 0) /\ Tally("C", 5, 2)
  /\ \E p \in Procs : proc[p].pc = "done" /\ proc[p].ret.kind = "best" /\ proc[p].ret.opt.id = "C"

\* C7: two runs of the selection on the same votes select the same slot.
C7_SelectionDeterministic ==
  \A p, q \in Procs :
    (Selected(p) # NoOpt /\ Selected(q) # NoOpt) => Selected(p) = Selected(q)

\* ---- capacity
\* the call went past the capacity check
Passed(p) ==
  \/ proc[p].pc \in {"update", "snapshot", "booking"}
  \/ proc[p].pc = "done" /\ proc[p].ret.kind = "best"

TheSlot == CHOOSE o \in event_options : o.event_id = "e1"
YesCount == Yes(TheSlot)

\* bookings of other events in e1's room that intersect the slot
OtherBookings ==
  {b \in BagToSet(bookings) :
     /\ b.event_id # "e1" /\ b.room_id = events["e1"].room_id
     /\ b.start_at < TheSlot.end_at /\ TheSlot.start_at < b.end_at}

\* the attendees of a booked event: its attendance rows, else its required users
Heads(e) ==
  IF LogsOf(e) # {} THEN {<<e, a.slack_user_id>> : a \in LogsOf(e)}
  ELSE {<<e, u>> : u \in event_required_users[e]}

ExistingCount == Cardinality(UNION {Heads(b.event_id) : b \in OtherBookings})

\* C8: with a known capacity the decide call is refused exactly when
\* existingCount + thisYesCount > capacity; equality passes (capacity 5,
\* existing 3: 2 yes votes pass, 3 are refused).
C8_KnownCapacity ==
  (capacity # NULL /\ (Passed("p1") \/ Refused("p1"))) =>
     /\ Refused("p1") <=> (ExistingCount + YesCount > capacity)
     /\ (capacity = 5 /\ ExistingCount = 3 /\ YesCount = 2) => Passed("p1")
     /\ (capacity = 5 /\ ExistingCount = 3 /\ YesCount = 3) => Refused("p1")

\* the room is exactly full and the event was decided
C8_Witness ==
  /\ capacity = 5 /\ ExistingCount = 3 /\ YesCount = 2
  /\ proc["p1"].pc = "done" /\ proc["p1"].ret.kind = "best"
  /\ events["e1"].status = "fixed"

\* C9: with an unknown capacity the decide call is refused whenever another
\* booking of the room overlaps the winning interval, whatever the head-counts,
\* and is not refused when no booking of the room overlaps it.
C9_UnknownCapacity ==
  (capacity = NULL /\ (Passed("p1") \/ Refused("p1"))) =>
     /\ OtherBookings # {} => Refused("p1")
     /\ Refused("p1") =>
          \E b \in BagToSet(bookings) :
             /\ b.room_id = events["e1"].room_id
             /\ b.start_at < TheSlot.end_at /\ TheSlot.start_at < b.end_at

\* refused although nobody votes yes and the other event has no attendance rows
C9_Witness ==
  /\ capacity = NULL /\ Refused("p1") /\ YesCount = 0
  /\ OtherBookings # {} /\ \A b \in OtherBookings : LogsOf(b.event_id) = {}

ManualRefusal(p) ==
  proc[p].pc = "done" /\ proc[p].source = "manual" /\ proc[p].ret.kind = "error"

NothingChanged(e) ==
  events[e].status = "planning" /\ BookingsOf(e) = {} /\ LogsOf(e) = {}

SnapOptions == {Opt("o1", "e1", 1, 2), Opt("o2", "e1", 3, 4)}
SnapVoters == {1, 2}

InitSnap ==
  /\ \E r \in {NoRoom, Room} : events = [e \in {"e1"} |-> NewEvent(r)]
  /\ event_options = SnapOptions
  /\ votes = {}
  /\ capacity = NULL
  /\ bookings = EmptyBag
  /\ attendance_logs = {}
  /\ event_required_users = [e \in {"e1"} |-> {1}]
  /\ user_profiles \in SUBSET SnapVoters
  /\ now = 0
  /\ proc = [p \in Procs |-> IF p = "p1" THEN Calling("e1", "auto") ELSE Idle]
  /\ calls = 0
  /\ reminders_sent = {} /\ dms = EmptyBag
  /\ notices = {} /\ calendar = {} /\ down = {}

NextSnap ==
  \/ decideAndClose("p1")
  \/ \E o \in OptionIds, u \in SnapVoters, c \in Choices : voteHandler(o, u, c)

SpecSnap == InitSnap /\ [][NextSnap]_vars

\* the users whose vote on slot o is yes
YesVoters(o) == {v.slack_user_id : v \in {x \in votes : x.event_option_id = o.id /\ x.choice = "yes"}}

\* C12: when the decide call that won the transition takes the snapshot, the
\* event's attendance rows are exactly one row for each voter whose vote on the
\* winning slot is yes at that moment, each recording the slot, its start and end.
C12_SnapshotOfYesVoters ==
  [][\A p \in Procs :
       (proc[p].pc = "snapshot" /\ proc'[p].pc = "booking") =>
          LogsOf(proc[p].ev)' = {LogOf(proc[p].ev, u, proc[p].best) : u \in YesVoters(proc[p].best)}]_vars

\* ------------------------------------------ reminder scans side by side
RemindOptions == {Opt("o1", "e1", 1, 2), Opt("o3", "e2", 2, 3), Opt("o4", "e2", 100, 101)}
RemindUsers == {1, 2}

InitRemind ==
  /\ \E d \in {1000, 2000} :
       events = [e \in {"e1", "e2"} |->
                   IF e = "e1" THEN [NewEvent(NoRoom) EXCEPT !.deadline_at = d]
                   ELSE [NewEvent(NoRoom) EXCEPT !.status = "fixed"]]
  /\ event_options = RemindOptions
  /\ \E Y \in {{1}, RemindUsers}, o \in OptionsOf("e2") :
       /\ votes = {[event_option_id |-> o.id, slack_user_id |-> u, choice |-> "yes"] : u \in Y}
       /\ attendance_logs = IF events["e2"].status = "fixed"
                              THEN {LogOf("e2", u, o) : u \in Y} ELSE {}
       /\ bookings = IF events["e2"].status = "fixed"
                       THEN SetToBag({BookingOf("e2", NoRoom, o)}) ELSE EmptyBag
  /\ capacity = NULL
  /\ \E R \in {{2}, RemindUsers} :
       event_required_users = [e \in {"e1", "e2"} |-> IF e = "e1" THEN R ELSE RemindUsers]
  /\ user_profiles = RemindUsers
  /\ now = 0
  /\ proc = [p \in Procs |-> Idle]
  /\ calls = 0
  /\ reminders_sent = {} /\ dms = EmptyBag
  /\ notices = {} /\ calendar = {} /\ down \in {{}, {"slack"}}

NextRemind ==
  \/ \E p \in Procs : ReminderScan(p)
  \/ \E p \in Procs : Reminders(p)
  \/ \E p \in Procs : Crash(p)
  \/ \E c \in Choices : voteHandler("o1", 1, c)
  \/ \E p \in Procs, e \in Events : CancelHandler(p, e, 1)
  \/ \E p \in Procs : cancelEvent(p)

SpecRemind == InitRemind /\ [][NextRemind]_vars

\* ------- every operation on one event, external services up or down
InitCancel ==
  /\ \E st \in {"planning", "fixed"}, r \in {NoRoom, Room} :
       events = [e \in {"e1"} |-> [NewEvent(r) EXCEPT !.status = st]]
  /\ event_options = {Opt("o1", "e1", 1, 2)}
  /\ \E Y \in SUBSET {1} :
       /\ votes = {[event_option_id |-> "o1", slack_user_id |-> u, choice |-> "yes"] : u \in Y}
       /\ attendance_logs = IF events["e1"].status = "fixed"
                              THEN {LogOf("e1", u, Opt("o1", "e1", 1, 2)) : u \in Y} ELSE {}
  /\ bookings = IF events["e1"].status = "fixed"
                  THEN SetToBag({BookingOf("e1", events["e1"].room_id, Opt("o1", "e1", 1, 2))})
                  ELSE EmptyBag
  /\ capacity = NULL
  /\ event_required_users = [e \in {"e1"} |-> {1}]
  /\ user_profiles = {1}
  /\ now = 0
  /\ proc = [p \in Procs |-> Idle]
  /\ calls = 0
  /\ reminders_sent = {} /\ dms = EmptyBag
  /\ down \in SUBSET {"slack", "gcal"}
  /\ notices = IF events["e1"].status = "fixed" /\ "slack" \notin down
                 THEN {<<"e1", "decided">>} ELSE {}
  /\ calendar = IF events["e1"].status = "fixed" /\ "gcal" \notin down THEN {"e1"} ELSE {}

NextCancel ==
  \/ \E p \in Procs : decideAndClose(p)
  \/ \E p \in Procs : cancelEvent(p)
  \/ \E p \in Procs, e \in Events, u \in Requesters : CloseHandler(p, e, u)
  \/ \E p \in Procs, e \in Events, u \in Requesters : CancelHandler(p, e, u)
  \/ \E p \in Procs : CronScan(p)
  \/ \E c \in Choices : voteHandler("o1", 1, c)

SpecCancel == InitCancel /\ [][NextCancel]_vars

\* the slot of e1 does not fit its room
CapacityFails ==
  IF capacity # NULL THEN ExistingCount + YesCount > capacity ELSE OtherBookings # {}

\* C11: an auto decide that fails the capacity check returns null, raises no
\* error and changes nothing: the event stays planning, gets no Booking row, no
\* attendance row, no thread notice and no calendar entry, and still satisfies
\* the condition of the auto-decide scan.
C11_AutoDeferral ==
  (proc["p1"].pc = "done" /\ proc["p1"].source = "auto" /\ CapacityFails) =>
     /\ proc["p1"].ret.kind = "null"
     /\ NothingChanged("e1")
     /\ <<"e1", "decided">> \notin notices /\ "e1" \notin calendar
     /\ Due("e1")

\* the auto call met a room of capacity 5 holding 3 with 3 yes votes, all
\* services up
C11_Witness ==
  /\ proc["p1"].pc = "done" /\ proc["p1"].source = "auto"
  /\ capacity = 5 /\ ExistingCount = 3 /\ YesCount = 3 /\ down = {}
  /\ proc["p1"].ret = Null("capacity")

\* ---- reminders
\* the number of messages posted for ticket t
Copies(t) == IF t \in BagToSet(dms) THEN dms[t] ELSE 0
\* p made the insert of ticket t and has not sent yet
Holds(p, t) == proc[p].pc = "send" /\ proc[p].token /\ Ticket(p) = t
Tickets == [event_id : Events, user_id : RemindUsers, type : {"vote", "join"}]

\* C13: for every (event, user, kind) at most one reminder message is ever
\* posted, however many scans run and however they interleave, and no
\* reminders_sent row is ever removed or changed, by cancel included.
C13_AtMostOneReminder ==
  [][/\ reminders_sent \subseteq reminders_sent'
     /\ \A t \in Tickets : Copies(t)' <= 1]_vars

\* a join reminder went out once, the event was cancelled afterwards, two scans ran
C13_Witness ==
  /\ calls >= 2 /\ events["e2"].status = "closed"
  /\ \E t \in reminders_sent : t.event_id = "e2" /\ t.type = "join" /\ Copies(t) = 1
  /\ \E p \in Procs : proc[p].pc = "done" /\ proc[p].ret.kind = "scanned"

\* C14: a reminder message is posted only by the scan that has just made the
\* successful insert of its ticket, and only once; when that scan dies before
\* the send the row stays, nobody else ever gets the ticket, and the message is
\* never posted.
C14_ClaimThenSend ==
  [][\A t \in Tickets :
       /\ Copies(t)' # Copies(t) =>
            /\ Copies(t) = 0 /\ Copies(t)' = 1
            /\ t \in reminders_sent /\ \E p \in Procs : Holds(p, t)
       /\ \A p \in Procs :
            (Holds(p, t) /\ proc'[p].ret.kind = "crashed") =>
               t \in reminders_sent' /\ Copies(t)' = Copies(t)
       /\ (t \in reminders_sent /\ ~\E p \in Procs : Holds(p, t)) =>
            ~\E p \in Procs : Holds(p, t)'
       /\ \A p, q \in Procs : (Holds(p, t)' /\ Holds(q, t)') => p = q]_vars

\* a scan died holding a ticket; a later scan completed and the message is still missing
C14_Witness ==
  /\ down = {}
  /\ \E p, q \in Procs :
       /\ proc[p].pc = "done" /\ proc[p].ret.kind = "crashed"
       /\ proc[q].pc = "done" /\ proc[q].ret.kind = "scanned"
  /\ \E t \in reminders_sent : Copies(t) = 0

\* user u has a vote on some slot of event e
VotedOn(e, u) ==
  \E v \in votes : v.slack_user_id = u /\ \E o \in event_options : o.id = v.event_option_id /\ o.event_id = e
InVoteWindow(e) == events[e].status = "planning" /\ events[e].deadline_at - 1440 <= now
VoteTicket(e, u) == [event_id |-> e, user_id |-> u, type |-> "vote"]

\* C15: after any number of completed vote-reminder scans of a planning event
\* inside its window, a required user without a vote has exactly one
\* reminders_sent row (event, user, vote) and at most one message; a scan that
\* reaches a user who has voted on any slot of the event skips that user: no
\* row is inserted and no message is posted for them.
ScanCompleted == \E p \in Procs : proc[p].pc = "done" /\ proc[p].ret.kind = "scanned"

C15_VoteReminderOnce ==
  /\ [](\A e \in Events : \A u \in event_required_users[e] :
          (ScanCompleted /\ InVoteWindow(e) /\ ~VotedOn(e, u)) =>
             VoteTicket(e, u) \in reminders_sent /\ Copies(VoteTicket(e, u)) <= 1)
  /\ [][\A p \in Procs :
          (proc[p].pc = "voted" /\ VotedOn(proc[p].ev, proc[p].u) /\ proc'[p] # proc[p]) =>
             /\ ~Holds(p, VoteTicket(proc[p].ev, proc[p].u))'
             /\ proc'[p].pc # "claim"
             /\ UNCHANGED <<reminders_sent, dms>>]_vars

\* two scans ran: the user without a vote has one row and one message, the
\* user who voted has neither
C15_Witness ==
  /\ calls = 2 /\ \A p \in Procs : proc[p].pc = "done" /\ proc[p].ret.kind = "scanned"
  /\ InVoteWindow("e1") /\ ~VotedOn("e1", 2) /\ VotedOn("e1", 1)
  /\ VoteTicket("e1", 2) \in reminders_sent /\ Copies(VoteTicket("e1", 2)) = 1
  /\ VoteTicket("e1", 1) \notin reminders_sent

\* ---- votes
VoteRow(o, u, c) == [event_option_id |-> o, slack_user_id |-> u, choice |-> c]
RowsOfPair(vs, o, u) == {v \in vs : v.event_option_id = o /\ v.slack_user_id = u}

IntervalOf(b) == [kind |-> "interval", start_at |-> b.start_at, end_at |-> b.end_at]

\* C17: when cancel runs on a fixed event that has its Booking row, the delete
\* removes the row, the call goes on to set the status to closed and returns
\* the interval of the removed row, whether the calendar deletion succeeds or
\* fails.
C17_CancelFixed ==
  [][\A p \in Procs :
       /\ (proc[p].pc = "c_delete" /\ proc'[p] # proc[p] /\ events[proc[p].ev].status = "fixed") =>
            /\ BookingsOf(proc[p].ev)' = {}
            /\ proc'[p].pc = "c_close" /\ proc'[p].del = BookingsOf(proc[p].ev)
       /\ (proc[p].pc = "c_close" /\ proc'[p] # proc[p]) =>
            /\ events'[proc[p].ev].status = "closed"
            /\ proc'[p].pc = "done"
            /\ \A b \in proc[p].del : proc'[p].ret = IntervalOf(b)]_vars

\* the calendar was down: the event is closed, its booking gone and returned,
\* the calendar entry left behind
C17_Witness ==
  /\ "gcal" \in down /\ events["e1"].status = "closed" /\ BookingsOf("e1") = {}
  /\ \E p \in Procs : proc[p].pc = "done" /\ proc[p].op = "cancel"
                        /\ proc[p].ret = [kind |-> "interval", start_at |-> 1, end_at |-> 2]

\* C18: whenever a decide call has won the transition and returned, whatever
\* became of the thread notice and of the calendar registration, the winning
\* slot was returned and the event is fixed with its attendance rows and its
\* Booking row written.
C18_DecisionSurvivesExternalFailure ==
  \A p \in Procs :
    (proc[p].pc = "done" /\ proc[p].won) =>
       /\ proc[p].ret.kind = "best"
       /\ events[proc[p].ev].status = "fixed"
       /\ LogsOf(proc[p].ev) = {LogOf(proc[p].ev, u, proc[p].ret.opt) : u \in YesVoters(proc[p].ret.opt)}
       /\ BookingCount(proc[p].ev) = 1

\* ---- requests
\* this step is caller p receiving a close or cancel request
Requested(p, op) == calls' = calls + 1 /\ Ready(p) /\ proc'[p].op = op
Turned(p, why) == proc'[p].pc = "done" /\ proc'[p].ret = [kind |-> "rejected", why |-> why]
Untouched == UNCHANGED <<events, bookings, attendance_logs>>
NotCreator(p) == proc'[p].by # events[proc'[p].ev].created_by

\* C19 as stated: a close or cancel request of a user who is not the creator
\* is rejected as PermissionDenied and changes nothing, whatever the status.
C19_Original ==
  [][\A p \in Procs : \A op \in {"close", "cancel"} :
       (Requested(p, op) /\ NotCreator(p)) => Turned(p, "permission denied") /\ Untouched]_vars

\* C19: a close or cancel request of a user who is not the creator is rejected
\* and changes nothing, whatever the status; the answer is PermissionDenied
\* when the status check passes (close: planning; cancel: not closed), and the
\* answer of the status check (invalid state, already cancelled) otherwise.
C19_NonCreatorRejected ==
  [][\A p \in Procs :
       /\ (Requested(p, "close") /\ NotCreator(p)) =>
            /\ Untouched
            /\ IF events[proc'[p].ev].status = "planning" THEN Turned(p, "permission denied")
               ELSE Turned(p, "invalid state")
       /\ (Requested(p, "cancel") /\ NotCreator(p)) =>
            /\ Untouched
            /\ IF events[proc'[p].ev].status # "closed" THEN Turned(p, "permission denied")
               ELSE Turned(p, "already cancelled")]_vars

\* user 2 asked to cancel a fixed event and was denied: the event is still
\* fixed and keeps its booking
C19_Witness ==
  \E p \in Procs :
    /\ proc[p].pc = "done" /\ proc[p].by = 2 /\ proc[p].op = "cancel"
    /\ proc[p].ret = [kind |-> "rejected", why |-> "permission denied"]
    /\ events[proc[p].ev].status = "fixed" /\ BookingCount(proc[p].ev) = 1

\* C20: a close request on a closed or fixed event is rejected as invalid
\* state, a cancel request on a closed event as already cancelled, and neither
\* changes anything.
C20_InvalidStateRejected ==
  [][\A p \in Procs :
       /\ (Requested(p, "close") /\ events[proc'[p].ev].status \in {"closed", "fixed"}) =>
             Turned(p, "invalid state") /\ Untouched
       /\ (Requested(p, "cancel") /\ events[proc'[p].ev].status = "closed") =>
             Turned(p, "already cancelled") /\ Untouched]_vars

\* the creator's cancel of an event that is already closed was turned away
C20_Witness ==
  \E p \in Procs :
    /\ proc[p].pc = "done" /\ proc[p].op = "cancel" /\ proc[p].by = 1
    /\ proc[p].ret = [kind |-> "rejected", why |-> "already cancelled"]
    /\ events[proc[p].ev].status = "closed"

\* ==================================================== the auto-decide queue
\* a statement of decideAndClose is rejected by the store while the scheduler
\* runs it. Inside the capacity branch's try the rejection is caught and the call
\* returns null (source auto), so the loop goes on; anywhere else it leaves
\* decideAndClose and the for loop, and lands in the catch around the whole run
StoreFails(p) ==
  /\ proc[p].op = "cron"
  /\ proc[p].pc \in {"agg", "yes", "cap", "update", "snapshot", "booking"}
  /\ IF proc[p].pc \in {"yes", "cap"}
       THEN Finish(p, Null("capacity"))
       ELSE proc' = [proc EXCEPT ![p] = [Idle EXCEPT !.op = "cron", !.source = "auto", !.pc = "done",
                                                     !.ret = [kind |-> "failed", why |-> "store"]]]
  /\ UNCHANGED <<store, calls>>

\* the overdue planning events that come before x in deadline order: b1 is the
\* most overdue
BatchNames == <<"b1", "b2", "b3", "b4", "b5", "b6", "b7", "b8", "b9", "b10">>
NameIndex(e) == CHOOSE i \in 1..Len(BatchNames) : BatchNames[i] = e

\* k overdue events stand before x: the first j of them have no candidate slot,
\* the others want the slot 1..3 of the room, which the fixed event f has booked,
\* so the capacity check defers them at every run. x is overdue, has one slot
\* (5..6, no yes vote) and passes the check; "late" is planning with its deadline
\* ahead
InitBatch ==
  \E k \in 0..BatchLimit, r \in {NoRoom, Room} : \E j \in 0..k :
    LET B == {BatchNames[i] : i \in 1..k}
        Blocked == {BatchNames[i] : i \in (j+1)..k} IN
      /\ events = [e \in B \cup {"x", "f", "late"} |->
                     IF e = "x" THEN [NewEvent(r) EXCEPT !.deadline_at = BatchLimit + 1]
                     ELSE IF e = "f" THEN [NewEvent(Room) EXCEPT !.status = "fixed"]
                     ELSE IF e = "late" THEN [NewEvent(NoRoom) EXCEPT !.deadline_at = 99]
                     ELSE [NewEvent(Room) EXCEPT !.deadline_at = NameIndex(e)]]
      /\ event_options = {Opt(e, e, 1, 3) : e \in Blocked}
                           \cup {Opt("ox", "x", 5, 6), Opt("of", "f", 1, 3)}
      /\ votes = CastVotes("ox", 0, 1) \cup CastVotes("of", 1, 0)
      /\ bookings = SetToBag({BookingOf("f", Room, Opt("of", "f", 1, 3))})
      /\ attendance_logs = {LogOf("f", 1, Opt("of", "f", 1, 3))}
      /\ capacity \in {NULL, 0}
      /\ event_required_users = [e \in B \cup {"x", "f", "late"} |-> {}]
      /\ user_profiles = {1}
      /\ now = 20
      /\ proc = [p \in Procs |-> Idle]
      /\ calls = 0
      /\ reminders_sent = {} /\ dms = EmptyBag
      /\ notices = {} /\ calendar = {} /\ down = {}

\* the scheduler alone, on a store that may reject a statement
NextBatch == CronTick("p1") \/ decideAndClose("p1") \/ StoreFails("p1")

SpecBatch == InitBatch /\ [][NextBatch]_vars

\* the scheduler alone, on a store that answers every statement; the timer keeps
\* firing and every awaited statement completes
NextLive == CronTick("p1") \/ decideAndClose("p1")

SpecLive == InitBatch /\ [][NextLive]_vars /\ WF_vars(CronTick("p1")) /\ WF_vars(decideAndClose("p1"))

C22_LogsAppendOnly ==
  [][/\ attendance_logs \subseteq attendance_logs'
     /\ \A a, b \in attendance_logs' :
          (a.event_id = b.event_id /\ a.slack_user_id = b.slack_user_id) => a = b]_vars
\* the event was decided with user 1's yes, user 1 then changed the vote and the
\* creator cancelled: the entry is still there
C22_Witness ==
  /\ events["e1"].status = "closed"
  /\ \E p \in Procs : proc[p].op = "cancel" /\ proc[p].pc = "done" /\ proc[p].ret.kind # "rejected"
  /\ \E a \in attendance_logs : a.event_id = "e1" /\ a.slack_user_id = 1
  /\ VotesOn(votes, "o1", "yes") = {}

\* ------------------------- one decide call, with or without a room or a slot
\* e1 is planning, in the room or in none, with one slot (1..2) or none; the fixed
\* event e2 holds a booking of the same interval, in the room or in none
InitSingle ==
  /\ \E r1, r2 \in {NoRoom, Room} :
       /\ events = [e \in {"e1", "e2"} |-> IF e = "e1" THEN NewEvent(r1)
                                            ELSE [NewEvent(r2) EXCEPT !.status = "fixed"]]
       /\ bookings = SetToBag({BookingOf("e2", r2, Opt("o2", "e2", 1, 2))})
  /\ event_options \in {{Opt("o2", "e2", 1, 2)}, {Opt("o1", "e1", 1, 2), Opt("o2", "e2", 1, 2)}}
  /\ \E y \in 0..MaxAttendees, n \in 0..MaxAttendees :
       /\ votes = (IF OptionsOf("e1") = {} THEN {} ELSE CastVotes("o1", y, 0))
                     \cup CastVotes("o2", n, 0)
       /\ attendance_logs = {LogOf("e2", u, Opt("o2", "e2", 1, 2)) : u \in 1..n}
  /\ capacity \in {NULL, 0, 1}
  /\ event_required_users = [e \in {"e1", "e2"} |-> {1}]
  /\ user_profiles = 1..MaxAttendees
  /\ now = 0
  /\ \E src \in Sources : proc = [p \in Procs |-> IF p = "p1" THEN Calling("e1", src) ELSE Idle]
  /\ calls = 0
  /\ reminders_sent = {} /\ dms = EmptyBag
  /\ notices = {<<"e2", "decided">>} /\ calendar = {"e2"} /\ down = {}

NextSingle == decideAndClose("p1")

SpecSingle == InitSingle /\ [][NextSingle]_vars

\* C23: a decide on an event with no room never enters the capacity check: when
\* the event is planning and has a slot, the call returns the winner and the
\* event is fixed, whatever bookings and attendee counts exist.
C23_NoRoomNeverBlocked ==
  (events["e1"].room_id = NoRoom /\ OptionsOf("e1") # {}) =>
     /\ proc["p1"].pc \notin {"yes", "cap"}
     /\ proc["p1"].pc = "done" =>
          /\ proc["p1"].ret.kind = "best"
          /\ events["e1"].status = "fixed"
\* decided although a booking of the same interval exists, for a room of capacity 0
C23_Witness ==
  /\ events["e1"].room_id = NoRoom /\ events["e2"].room_id = NoRoom
  /\ capacity = 0
  /\ Count(votes, "o1", "yes") >= 1
  /\ proc["p1"].pc = "done" /\ events["e1"].status = "fixed"

\* C27: a decide on an event without candidate slots returns "nothing to decide",
\* raises no error and changes nothing in the store.
C27_NothingToDecide ==
  [][\A p \in Procs :
       (proc[p].pc = "agg" /\ OptionsOf(proc[p].ev) = {} /\ proc'[p] # proc[p]) =>
          /\ proc'[p].pc = "done"
          /\ proc'[p].ret = Null("no options")
          /\ UNCHANGED store]_vars
C27_Witness ==
  /\ OptionsOf("e1") = {}
  /\ proc["p1"].pc = "done" /\ proc["p1"].ret = Null("no options")
  /\ events["e1"].status = "planning" /\ BookingsOf("e1") = {} /\ LogsOf("e1") = {}

\* the claim's overlap test for a candidate [cs, ce) and another interval [os, oe)
ClaimOverlap(cs, ce, os, oe) == ~(ce <= os \/ cs >= oe)
\* bookings of other events in e1's room
RoomBookings ==
  {b \in BagToSet(bookings) : b.event_id # "e1" /\ b.room_id = events["e1"].room_id}
Touching(b) == b.end_at = TheSlot.start_at \/ b.start_at = TheSlot.end_at
Intersecting ==
  {b \in RoomBookings : ClaimOverlap(TheSlot.start_at, TheSlot.end_at, b.start_at, b.end_at)}

\* C24: a booking of the room counts as overlapping exactly when
\* not (candidateEnd <= otherStart or candidateStart >= otherEnd): with unknown
\* capacity the decide is refused exactly when some booking satisfies this, and
\* bookings that only touch the slot (ending when it starts, starting when it
\* ends) add nothing to the head-count and never block.
C24_OverlapTest ==
  (Passed("p1") \/ Refused("p1")) =>
     /\ capacity = NULL => (Refused("p1") <=> Intersecting # {})
     /\ (capacity # NULL /\ Intersecting = {}) => (Refused("p1") <=> YesCount > capacity)
     /\ ((\A b \in RoomBookings : Touching(b)) /\ (capacity = NULL \/ YesCount <= capacity))
          => Passed("p1")
\* decided between a booking that ends when the slot starts and one that starts
\* when it ends, in a room of unknown capacity
C24_Witness ==
  /\ capacity = NULL
  /\ \E b \in RoomBookings : b.end_at = TheSlot.start_at
  /\ \E b \in RoomBookings : b.start_at = TheSlot.end_at
  /\ proc["p1"].pc = "done" /\ proc["p1"].ret.kind = "best" /\ events["e1"].status = "fixed"

\* what one overlapping event adds: its attendance rows if it has any, else its
\* required attendees
Contribution(e) ==
  IF Cardinality(LogsOf(e)) >= 1 THEN Cardinality(LogsOf(e))
  ELSE Cardinality(event_required_users[e])
RECURSIVE Total(_)
Total(S) == IF S = {} THEN 0 ELSE LET e == CHOOSE x \in S : TRUE IN Contribution(e) + Total(S \ {e})
ClaimedExisting == Total({b.event_id : b \in Intersecting})

\* C25: with a known capacity, existingCount is the sum over the other events
\* with an overlapping booking of the room of the event's attendance-row count
\* when it has at least one row and of its required-attendee count otherwise; it
\* is 0 when no such event exists.
C25_ExistingCount ==
  (capacity # NULL /\ (Passed("p1") \/ Refused("p1"))) =>
     /\ Refused("p1") <=> (ClaimedExisting + YesCount > capacity)
     /\ ManualRefusal("p1") => proc["p1"].ret.existing = ClaimedExisting
     /\ (ManualRefusal("p1") /\ Intersecting = {}) => proc["p1"].ret.existing = 0
\* two overlapping events, one counted by its attendance rows and one by its
\* required attendees
C25_Witness ==
  /\ capacity # NULL /\ ManualRefusal("p1")
  /\ Cardinality({b.event_id : b \in Intersecting}) = 2
  /\ \E b \in Intersecting : Cardinality(LogsOf(b.event_id)) >= 2
  /\ \E b \in Intersecting : LogsOf(b.event_id) = {}
  /\ proc["p1"].ret.existing = ClaimedExisting

\* bookings of events other than e in e's room that intersect the interval of o
ForeignOverlaps(e, o) ==
  {b \in BagToSet(bookings) :
     /\ b.event_id # e /\ b.room_id = events[e].room_id
     /\ ClaimOverlap(o.start_at, o.end_at, b.start_at, b.end_at)}
\* the verdict of a capacity check that leaves the event's own booking out
BlockedByOthers(e, o, yes) ==
  IF capacity = NULL THEN ForeignOverlaps(e, o) # {}
  ELSE Total({b.event_id : b \in ForeignOverlaps(e, o)}) + yes > capacity

\* C26: the capacity check of a decide on event e never counts a booking that
\* belongs to e itself, with a known capacity and with an unknown one: its
\* verdict is the one that the bookings of the other events give.
C26_OwnBookingNotCounted ==
  [][\A p \in Procs :
       (proc[p].pc = "cap" /\ proc'[p] # proc[p]) =>
          (proc'[p].pc = "update"
             <=> ~BlockedByOthers(proc[p].ev, proc[p].best, proc[p].thisYes))]_vars

DecidePcs == {"agg", "yes", "cap", "update", "snapshot", "booking"}
\* p's update is about to make, or has made, the planning -> fixed transition
WinsUpdate(p) ==
  \/ proc[p].won
  \/ proc[p].pc = "update" /\ events[proc[p].ev].status = "planning"

\* C28: of the decide calls on an event only the one whose conditional update
\* made the transition writes the attendance log, the booking, the thread notice
\* and the calendar entry; a decide call that finds the event already fixed or
\* closed writes none of them and leaves the store unchanged.
C28_OnlyWinnerWrites ==
  [][\A p \in Procs :
       (proc[p].pc \in DecidePcs /\ proc'[p] # proc[p]) =>
          (WinsUpdate(p) \/ UNCHANGED store)]_vars
\* one call made the transition and wrote; another found the event fixed or
\* closed and returned null
C28_Witness ==
  \E p, q \in Procs :
    /\ proc[p].pc = "done" /\ proc[p].won /\ proc[p].ret.kind = "best"
    /\ proc[q].pc = "done" /\ ~proc[q].won /\ proc[q].ret = Null("already decided")
    /\ BookingCount("e1") = 1

\* the events a scheduler run is still to pass to decide, the current one first
Pending(p) ==
  IF proc[p].op = "cron" /\ proc[p].pc \in DecidePcs THEN <<proc[p].ev>> \o proc[p].due
  ELSE <<>>
\* the events a run that starts in this step has selected
Batch(p) == IF proc'[p].pc = "agg" THEN <<proc'[p].ev>> \o proc'[p].due ELSE <<>>
Overdue(e) == events[e].status = "planning" /\ events[e].deadline_at <= now

\* C29: a scheduler run selects only events that are planning with a deadline at
\* or before now, at most 10 of them, the earliest deadlines first and in
\* ascending deadline order, and passes exactly these, in that order, to decide
\* with trigger auto; fixed or closed events and events whose deadline is ahead
\* are never selected.
C29_ScanSelection ==
  [][\A p \in Procs :
       /\ (proc[p].pc \in {"idle", "done"} /\ proc'[p] # proc[p]) =>
            LET b == Batch(p) IN
              /\ proc'[p].source = "auto"
              /\ Len(b) <= 10
              /\ \A i \in 1..Len(b) : Overdue(b[i])
              /\ \A i, j \in 1..Len(b) :
                   i < j => b[i] # b[j] /\ events[b[i]].deadline_at <= events[b[j]].deadline_at
              /\ \A e \in Events :
                   (Overdue(e) /\ \A i \in 1..Len(b) : b[i] # e) =>
                      /\ Len(b) = 10
                      /\ \A i \in 1..Len(b) : events[b[i]].deadline_at <= events[e].deadline_at
       /\ (Pending(p) # <<>> /\ proc'[p] # proc[p]) =>
            /\ Pending(p)' \in {Pending(p), Tail(Pending(p)), <<>>}
            /\ proc'[p].pc \in DecidePcs => proc'[p].source = "auto"]_vars
\* eleven events are overdue: the run takes the ten earliest and leaves x out
C29_Witness ==
  /\ proc["p1"].op = "cron" /\ proc["p1"].pc = "agg"
  /\ Len(Pending("p1")) = 10
  /\ \A i \in 1..10 : Pending("p1")[i] # "x"
  /\ events["x"].status = "planning" /\ events["x"].deadline_at <= now

\* the run ended in the catch around the whole callback: what was left of the
\* batch, the vote-reminder scan and the join-reminder scan were skipped
Aborted(p) == proc[p].op = "cron" /\ proc[p].pc = "done" /\ proc[p].ret.kind = "failed"

\* C30: a failure while the scheduler auto-decides one event stops neither the
\* attempts for the remaining events of the batch nor the reminder scans of the
\* run: every step of the loop stays with the current event or moves on to the
\* next one, and the run never ends in its error handler.
C30_ScansIndependent ==
  [][\A p \in Procs :
       (Pending(p) # <<>> /\ proc'[p] # proc[p]) =>
          /\ Len(Pending(p)) > 1 => Pending(p)' \in {Pending(p), Tail(Pending(p))}
          /\ ~Aborted(p)']_vars

\* ============================================== the timer, from process start
\* cron.schedule('*/10 * * * *', ...): the callback fires when the wall clock
\* enters a minute that is a multiple of 10, and at no other time; the process
\* starts at a minute 0..9 of the clock, so now \div Interval counts the firing
\* times that have come since the start
Interval == 10
MaxNow == 21

\* a minute passes
Minute ==
  /\ now < MaxNow
  /\ now' = now + 1
  /\ UNCHANGED <<event_options, capacity, event_required_users, user_profiles, events, votes,
                 bookings, attendance_logs, remind, outside, proc, calls>>

\* the timer fires for a multiple of 10 that has come and starts a run
CronFire(p) ==
  /\ Ready(p) /\ calls < now \div Interval
  /\ calls' = calls + 1
  /\ AutoDecideScan(p)

\* the process has just started, at minute `now`: the callback is scheduled and
\* nothing has run; e1 is planning and overdue
InitBoot ==
  /\ \E r \in {NoRoom, Room} : events = [e \in {"e1"} |-> NewEvent(r)]
  /\ event_options \in {{}, {Opt("o1", "e1", 30, 31)}}
  /\ votes \in {{}, {[event_option_id |-> "o1", slack_user_id |-> 1, choice |-> "yes"]}}
  /\ (event_options = {} => votes = {})
  /\ bookings = EmptyBag /\ attendance_logs = {}
  /\ capacity \in {NULL, 1}
  /\ event_required_users = [e \in {"e1"} |-> {1}]
  /\ user_profiles = {1}
  /\ now \in 0..(Interval - 1)
  /\ proc = [p \in Procs |-> Idle]
  /\ calls = 0
  /\ reminders_sent = {} /\ dms = EmptyBag
  /\ notices = {} /\ calendar = {} /\ down = {}

NextBoot == Minute \/ CronFire("p1") \/ decideAndClose("p1")

SpecBoot == InitBoot /\ [][NextBoot]_vars

\* C31: the scheduler performs a run at process start, in addition to those on
\* the 10-minute interval: no minute of the clock passes after the start before a
\* run has been performed.
C31_RunAtStart == [][now' > now => calls >= 1]_vars

\* the events a reminder scan that is made in this step has selected
ScanRows(p) == IF proc'[p].pc = "event" THEN <<proc'[p].ev>> \o proc'[p].due ELSE <<>>
\* the rows that this step inserts into reminders_sent
NewTickets == reminders_sent' \ reminders_sent
\* the messages that this step posts
NewMessages == {t \in DOMAIN dms' : Copies(t)' > Copies(t)}

\* C32: a vote reminder is claimed and sent only by a scan that found the event
\* planning with now >= deadline - 1440 minutes, only for a required attendee of
\* that event, and only after the scan found no vote of that user on any slot of
\* the event; the message goes to the user whose claim was inserted.
C32_VoteReminderTargets ==
  [][/\ \A p \in Procs :
          /\ (proc[p].pc \in {"idle", "done"} /\ proc'[p].op = "remind" /\ proc'[p] # proc[p]) =>
               \A i \in 1..Len(ScanRows(p)) :
                  /\ events[ScanRows(p)[i]].status = "planning"
                  /\ now >= events[ScanRows(p)[i]].deadline_at - 1440
          /\ (proc[p].kind = "vote" /\ proc'[p].kind = "vote" /\ proc[p].pc \notin {"idle", "done"}
                /\ proc'[p].ev # proc[p].ev) =>
               proc[p].due # <<>> /\ proc'[p].ev = Head(proc[p].due)
          /\ (proc[p].kind = "vote" /\ proc'[p].pc = "claim" /\ proc'[p] # proc[p]) =>
               /\ proc'[p].u \in event_required_users[proc'[p].ev]
               /\ ~VotedOn(proc'[p].ev, proc'[p].u)
     /\ \A t \in NewTickets :
          t.type = "vote" =>
             \E p \in Procs : /\ proc[p].pc = "claim" /\ proc[p].kind = "vote"
                              /\ t = VoteTicket(proc[p].ev, proc[p].u)
                              /\ t.user_id \in event_required_users[t.event_id]
     /\ \A t \in NewMessages :
          t.type = "vote" =>
             \E p \in Procs : /\ proc[p].pc = "send" /\ proc[p].token
                              /\ t = VoteTicket(proc[p].ev, proc[p].u)
                              /\ t \in reminders_sent]_vars
\* a scan is over: required user 2, who has not voted, was claimed and
\* messaged; user 1, who has not voted either but is not required, was not
C32_Witness ==
  /\ ScanCompleted
  /\ event_required_users["e1"] = {2} /\ ~VotedOn("e1", 1) /\ ~VotedOn("e1", 2)
  /\ VoteTicket("e1", 2) \in reminders_sent /\ Copies(VoteTicket("e1", 2)) = 1
  /\ VoteTicket("e1", 1) \notin reminders_sent

JoinTicket(e, u) == [event_id |-> e, user_id |-> u, type |-> "join"]
Attended(e, u) == \E a \in attendance_logs : a.event_id = e /\ a.slack_user_id = u

\* C33: a join reminder is claimed and sent only by a scan that found the event
\* fixed, with a booking that starts at most 60 minutes after now, and only for a
\* user who has an attendance row of that event; the message goes to the user
\* whose claim was inserted.
C33_JoinReminderTargets ==
  [][/\ \A p \in Procs :
          /\ (proc[p].pc = "j_scan" /\ proc'[p] # proc[p]) =>
               \A i \in 1..Len(ScanRows(p)) :
                  /\ events[ScanRows(p)[i]].status = "fixed"
                  /\ \E b \in BagToSet(bookings) :
                        b.event_id = ScanRows(p)[i] /\ now >= b.start_at - 60
          /\ (proc[p].kind = "join" /\ proc'[p].kind = "join" /\ proc[p].pc # "j_scan"
                /\ proc'[p].ev # proc[p].ev) =>
               proc[p].due # <<>> /\ proc'[p].ev = Head(proc[p].due)
          /\ (proc'[p].kind = "join" /\ proc'[p].pc = "claim" /\ proc'[p] # proc[p]) =>
               Attended(proc'[p].ev, proc'[p].u)
     /\ \A t \in NewTickets :
          t.type = "join" =>
             \E p \in Procs : /\ proc[p].pc = "claim" /\ proc[p].kind = "join"
                              /\ t = JoinTicket(proc[p].ev, proc[p].u)
                              /\ Attended(t.event_id, t.user_id)
     /\ \A t \in NewMessages :
          t.type = "join" =>
             \E p \in Procs : /\ proc[p].pc = "send" /\ proc[p].token
                              /\ t = JoinTicket(proc[p].ev, proc[p].u)
                              /\ t \in reminders_sent]_vars
\* a scan is over: user 1, who has an attendance row of the fixed event, was
\* claimed and messaged; user 2, who has none, was not, and nobody was for the
\* planning event
C33_Witness ==
  /\ ScanCompleted
  /\ events["e2"].status = "fixed" /\ Attended("e2", 1) /\ ~Attended("e2", 2)
  /\ JoinTicket("e2", 1) \in reminders_sent /\ Copies(JoinTicket("e2", 1)) = 1
  /\ JoinTicket("e2", 2) \notin reminders_sent
  /\ \A u \in RemindUsers : JoinTicket("e1", u) \notin reminders_sent

\* ================================================== the ledger and its reader
\* the vote button pressed by user u, with what becomes of the request: the
\* upsert is stored, or the insert is rejected and the handler ends in its error
VoteRequest(p, oid, u, c) ==
  /\ Ready(p)
  /\ votes' = VoteInsert(votes, oid, u, c)
  /\ proc' = [proc EXCEPT ![p] =
                [Idle EXCEPT !.pc = "done", !.op = "vote", !.u = u,
                             !.ret = [kind |-> IF oid \in OptionIds THEN "voted" ELSE "failed",
                                      slot |-> oid, choice |-> c]]]
  /\ UNCHANGED <<config, remind, outside, events, bookings, attendance_logs, calls>>

\* one grouped row of the aggregate of /mtg status and of the vote handler
AggRow(o) == [id |-> o.id, start_at |-> o.start_at, end_at |-> o.end_at,
              yes |-> Count(votes, o.id, "yes"), maybe |-> Count(votes, o.id, "maybe"),
              no |-> Count(votes, o.id, "no")]

\* faulty variant: an inner join: slots without votes yield no row
StatusAggInnerJoin(e) ==
  {s \in Orders({AggRow(o) : o \in {x \in OptionsOf(e) : \E v \in votes : v.event_option_id = x.id}}) :
     \A i, j \in 1..Len(s) : i < j => s[i].start_at <= s[j].start_at}

\* event_options left join votes ... group by eo.id ... order by eo.start_at asc:
\* the sequences the store may return (rows of equal start in any order)
StatusAgg(e) ==
  {s \in Orders({AggRow(o) : o \in OptionsOf(e)}) :
     \A i, j \in 1..Len(s) : i < j => s[i].start_at <= s[j].start_at}

\* /mtg status <event_id>
StatusHandler(p, e) ==
  /\ Ready(p)
  /\ IF e \notin Events
       THEN proc' = [proc EXCEPT ![p] = [Idle EXCEPT !.pc = "done", !.op = "status",
                                                     !.ret = Rejected("Event not found")]]
       ELSE \E s \in StatusAgg(e) :
              proc' = [proc EXCEPT ![p] = [Idle EXCEPT !.pc = "done", !.op = "status", !.ev = e,
                                                       !.ret = [kind |-> "status", rows |-> s]]]
  /\ UNCHANGED <<store, calls>>

\* e1 is planning and has three slots, two of them starting together; users 1
\* and 2 press vote buttons, also on a slot "zz" that does not exist, and one
\* reader asks for the status
LedgerOptions == {Opt("a", "e1", 2, 3), Opt("b", "e1", 2, 4), Opt("c", "e1", 1, 2)}
LedgerVoters == {1, 2}

InitLedger ==
  /\ events = [e \in {"e1"} |-> NewEvent(NoRoom)]
  /\ votes = {}
  /\ attendance_logs = {}
  /\ bookings = EmptyBag
  /\ event_options = LedgerOptions
  /\ capacity = NULL
  /\ event_required_users = [e \in {"e1"} |-> {1}]
  /\ user_profiles = LedgerVoters
  /\ now = 0
  /\ proc = [p \in Procs |-> Idle]
  /\ calls = 0
  /\ reminders_sent = {} /\ dms = EmptyBag
  /\ notices = {} /\ calendar = {} /\ down = {}

NextLedger ==
  \/ \E o \in OptionIds \cup {"zz"}, u \in LedgerVoters, c \in Choices : VoteRequest("p1", o, u, c)
  \/ \E e \in Events \cup {"e9"} : StatusHandler("p1", e)

SpecLedger == InitLedger /\ [][NextLedger]_vars

\* the users whose current vote on slot oid is c
VotersOf(oid, c) ==
  {u \in LedgerVoters : \E v \in votes : v.event_option_id = oid /\ v.slack_user_id = u /\ v.choice = c}

\* C34: the aggregate of an event has one row per candidate slot of the event, in
\* ascending order of slot start, and each row's yes, maybe and no counts are the
\* numbers of voters whose current vote on the slot is yes, maybe and no (0, 0, 0
\* for a slot without votes), all completed votes included.
C34_Aggregate ==
  \A p \in Procs :
    (proc[p].pc = "done" /\ proc[p].ret.kind = "status") =>
       LET rows == proc[p].ret.rows IN
         /\ Len(rows) = Cardinality(OptionsOf(proc[p].ev))
         /\ \A o \in OptionsOf(proc[p].ev) :
              \E i \in 1..Len(rows) :
                 /\ rows[i].id = o.id /\ rows[i].start_at = o.start_at /\ rows[i].end_at = o.end_at
                 /\ rows[i].yes = Cardinality(VotersOf(o.id, "yes"))
                 /\ rows[i].maybe = Cardinality(VotersOf(o.id, "maybe"))
                 /\ rows[i].no = Cardinality(VotersOf(o.id, "no"))
         /\ \A i, j \in 1..Len(rows) : i < j => rows[i].start_at <= rows[j].start_at
\* both users voted, one of them changed the vote, slot c has no vote
C34_Witness ==
  /\ proc["p1"].pc = "done" /\ proc["p1"].ret.kind = "status"
  /\ Cardinality(VotersOf("a", "yes")) = 2 /\ Cardinality(VotersOf("b", "maybe")) = 1
  /\ Cardinality(VotersOf("b", "no")) = 1
  /\ \A v \in votes : v.event_option_id # "c"
  /\ proc["p1"].ret.rows[1] = [id |-> "c", start_at |-> 1, end_at |-> 2, yes |-> 0, maybe |-> 0, no |-> 0]

\* the ledger after user u's vote c on slot oid, as the claim has it
Cast(vs, oid, u, c) ==
  {v \in vs : v.event_option_id # oid \/ v.slack_user_id # u}
    \cup {[event_option_id |-> oid, slack_user_id |-> u, choice |-> c]}
SlotIds == {o.id : o \in event_options}

\* C35: a vote on a slot that does not exist fails and creates no row; a vote on
\* an existing slot with a choice among yes, maybe, no succeeds and is stored;
\* votes of different voters are independent: stored in either order they give
\* the same ledger (evaluated on every ledger a status request has just read,
\* which is every ledger that occurs).
C35_CastVote ==
  /\ [][\A p \in Procs :
          (proc'[p].op = "vote" /\ (proc'[p] # proc[p] \/ votes' # votes)) =>
             LET r == proc'[p].ret IN
               /\ r.kind = "failed" <=> r.slot \notin SlotIds
               /\ r.kind = "failed" => votes' = votes
               /\ r.kind = "voted" => votes' = Cast(votes, r.slot, proc'[p].u, r.choice)]_vars
  /\ [](proc["p1"].op = "status" =>
          \A o1, o2 \in SlotIds, c1, c2 \in Choices :
             LET first == VoteInsert(VoteInsert(votes, o1, 1, c1), o2, 2, c2) IN
               /\ first = VoteInsert(VoteInsert(votes, o2, 2, c2), o1, 1, c1)
               /\ first = Cast(Cast(votes, o2, 2, c2), o1, 1, c1))
\* a vote on the missing slot has just failed, the ledger holding votes of both users
C35_Witness ==
  /\ proc["p1"].op = "vote" /\ proc["p1"].ret.kind = "failed" /\ proc["p1"].ret.slot = "zz"
  /\ \E v \in votes : v.slack_user_id = 1
  /\ \E v \in votes : v.slack_user_id = 2
  /\ \A v \in votes : v.event_option_id \in SlotIds

\* ========================================================== event creation
\* the capacity validation of the modal for one candidate slot o of a new event
\* e in room r with nreq required attendees: the known-capacity sum (no booking
\* of e exists yet) or the unknown-capacity overlap test
SlotError(e, r, o, nreq) ==
  IF capacity # NULL
    THEN ExistingAttendees(r, o.start_at, o.end_at, e) + nreq > capacity
    ELSE AnyOverlap(r, o.start_at, o.end_at)

\* the submission of the modal for a new event e in room r with slots sl and
\* required attendees R. The validation queries run inside try { } catch {}:
\* k = 0 when all of them answer, k = 1 when the rooms query is rejected, k = i + 1
\* when the query for the i-th slot is; what was found before the rejection
\* stays, the rest of the validation is skipped. Without errors the event, its
\* slots and, after the channel message, its required attendees are inserted
CreateHandler(p, e, r, sl, R) ==
  /\ Ready(p) /\ e \notin Events /\ sl # {}
  /\ \E s \in Orders(sl) : \E k \in 0..(IF r = NoRoom THEN 0 ELSE Len(s) + 1) :
       LET nreq == Cardinality(R)
           checked == IF k = 0 THEN 1..Len(s) ELSE 1..(k - 2)
           direct == r # NoRoom /\ k # 1 /\ capacity # NULL /\ nreq > capacity
           errors == direct \/ (r # NoRoom /\ \E i \in checked : SlotError(e, r, s[i], nreq))
           q == [Idle EXCEPT !.pc = "done", !.op = "create", !.ev = e] IN
         IF errors
           THEN /\ proc' = [proc EXCEPT ![p] = [q EXCEPT !.ret =
                              [kind |-> "rejected", why |-> "errors", room |-> r, slots |-> sl,
                               required |-> R, failed |-> k # 0]]]
                /\ UNCHANGED <<events, event_options, event_required_users>>
           ELSE /\ proc' = [proc EXCEPT ![p] = [q EXCEPT !.ret =
                              [kind |-> "created", why |-> "-", room |-> r, slots |-> sl,
                               required |-> R, failed |-> k # 0]]]
                /\ events' = [x \in Events \cup {e} |-> IF x = e THEN NewEvent(r) ELSE events[x]]
                /\ event_options' = event_options \cup sl
                /\ event_required_users' =
                     [x \in Events \cup {e} |->
                        IF x = e THEN (IF "slack" \in down THEN {} ELSE R)
                        ELSE event_required_users[x]]
  /\ UNCHANGED <<capacity, user_profiles, now, votes, bookings, attendance_logs, remind, outside, calls>>

\* the fixed event e2 holds the room from 1 to 3; a user submits the new event n1
\* with one or both of the slots 2..4 (overlapping) and 5..6, in the room or not
NewSlots == {Opt("s1", "n1", 2, 4), Opt("s2", "n1", 5, 6)}

InitCreate ==
  /\ events = [e \in {"e2"} |-> [NewEvent(Room) EXCEPT !.status = "fixed"]]
  /\ event_options = {Opt("o3", "e2", 1, 3)}
  /\ \E n \in 0..MaxAttendees :
       /\ votes = CastVotes("o3", n, 0)
       /\ attendance_logs = {LogOf("e2", u, Opt("o3", "e2", 1, 3)) : u \in 1..n}
  /\ bookings = SetToBag({BookingOf("e2", Room, Opt("o3", "e2", 1, 3))})
  /\ capacity \in {NULL} \cup (0..MaxCap)
  /\ event_required_users = [e \in {"e2"} |-> {1, 2}]
  /\ user_profiles = 1..MaxAttendees
  /\ now = 0
  /\ proc = [p \in Procs |-> Idle]
  /\ calls = 0
  /\ reminders_sent = {} /\ dms = EmptyBag
  /\ down \in {{}, {"slack"}}
  /\ notices = IF "slack" \in down THEN {} ELSE {<<"e2", "decided">>}
  /\ calendar = {"e2"}

NextCreate ==
  \E r \in {NoRoom, Room}, sl \in SUBSET NewSlots, R \in SUBSET (1..MaxAttendees) :
     CreateHandler("p1", "n1", r, sl, R)

SpecCreate == InitCreate /\ [][NextCreate]_vars

\* the claim's capacity algorithm for slot o of a new event in room r with n
\* attendees, over the bookings of the room
RoomOverlaps(r, o) ==
  {b \in BagToSet(bookings) :
     b.room_id = r /\ ClaimOverlap(o.start_at, o.end_at, b.start_at, b.end_at)}
FailsCapacity(r, o, n) ==
  IF capacity # NULL THEN Total({b.event_id : b \in RoomOverlaps(r, o)}) + n > capacity
  ELSE RoomOverlaps(r, o) # {}

\* C36: the creation of an event with a room is rejected, and no event, slot or
\* required-attendee row is written, whenever one of the submitted slots fails
\* the capacity algorithm with the number of required attendees as attendee
\* count; also when a store query of the check itself fails.
C36_CreationRejected ==
  [][\A p \in Procs :
       (proc'[p].op = "create" /\ proc'[p] # proc[p]) =>
          LET r == proc'[p].ret IN
            (r.room # NoRoom /\ \E o \in r.slots : FailsCapacity(r.room, o, Cardinality(r.required)))
               => /\ r.kind = "rejected"
                  /\ UNCHANGED <<events, event_options, event_required_users>>]_vars

\* C37: in every state, under any interleaving of decide and cancel calls for
\* the same event, a closed event has no booking.
C37_ClosedHasNoBooking ==
  \A e \in Events : events[e].status = "closed" => \A b \in BagToSet(bookings) : b.event_id # e

\* ================================================ two events sharing a room
\* e1 and e2 are planned in the same room of known capacity with the overlapping
\* slots 1..3 and 2..4; each has at least one yes voter with a profile, and one
\* decide call per event is under way
ShareOptions == {Opt("o1", "e1", 1, 3), Opt("o2", "e2", 2, 4)}

InitShare ==
  /\ events = [e \in {"e1", "e2"} |-> NewEvent(Room)]
  /\ event_options = ShareOptions
  /\ \E y1, y2 \in 1..MaxAttendees : votes = CastVotes("o1", y1, 0) \cup CastVotes("o2", y2, 0)
  /\ capacity \in 0..MaxCap
  /\ bookings = EmptyBag
  /\ attendance_logs = {}
  /\ event_required_users = [e \in {"e1", "e2"} |-> {1}]
  /\ user_profiles = 1..MaxAttendees
  /\ now = 0
  /\ \E s1, s2 \in Sources :
       proc = [p \in Procs |-> IF p = "p1" THEN Calling("e1", s1) ELSE Calling("e2", s2)]
  /\ calls = 0
  /\ reminders_sent = {} /\ dms = EmptyBag
  /\ notices = {} /\ calendar = {} /\ down \in {{}, {"slack", "gcal"}}

NextShare == \E p \in Procs : decideAndClose(p)

SpecShare == InitShare /\ [][NextShare]_vars

\* the sets of bookings of room r that share a common instant
SharingInstant(r) ==
  {B \in SUBSET {b \in BagToSet(bookings) : b.room_id = r} :
     /\ B # {}
     /\ \A b, c \in B : b.start_at < c.end_at}

\* C38: for a room of known capacity and every set of bookings sharing a common
\* instant, the attendee counts of their events (attendance rows if any, else
\* required attendees) sum to at most the capacity, also when decide calls for
\* different events in the room run concurrently.
C38_CapacityNeverExceeded ==
  capacity # NULL =>
    \A B \in SharingInstant(Room) : Total({b.event_id : b \in B}) <= capacity

\* ============================================ votes cast during a decide
\* e1 has two slots and a room of capacity 2 or none; both voters have a
\* profile; a decide call is under way while the voters cast and change votes
InitAdmit ==
  /\ \E r \in {NoRoom, Room} : events = [e \in {"e1"} |-> NewEvent(r)]
  /\ event_options = SnapOptions
  /\ votes = {}
  /\ capacity = 2
  /\ bookings = EmptyBag
  /\ attendance_logs = {}
  /\ event_required_users = [e \in {"e1"} |-> {1}]
  /\ user_profiles = SnapVoters
  /\ now = 0
  /\ \E src \in Sources : proc = [p \in Procs |-> IF p = "p1" THEN Calling("e1", src) ELSE Idle]
  /\ calls = 0
  /\ reminders_sent = {} /\ dms = EmptyBag
  /\ notices = {} /\ calendar = {} /\ down = {}

SpecAdmit == InitAdmit /\ [][NextSnap]_vars

\* slot a comes before slot b under the comparator of the decision: more yes
\* votes, then fewer maybe votes, then the earlier start
Marks(o, c) == Cardinality({v \in votes : v.event_option_id = o.id /\ v.choice = c})
ComesBefore(a, b) ==
  \/ Marks(a, "yes") > Marks(b, "yes")
  \/ Marks(a, "yes") = Marks(b, "yes") /\ Marks(a, "maybe") < Marks(b, "maybe")
  \/ Marks(a, "yes") = Marks(b, "yes") /\ Marks(a, "maybe") = Marks(b, "maybe")
       /\ a.start_at < b.start_at

\* C39: when votes are cast while a decide runs, the slot the decide records is
\* a comparator-best slot for the votes present at the planning -> fixed
\* transition, and the number of attendance rows it writes equals the yes count
\* its capacity check admitted.
C39_DecideSeesOneLedger ==
  [][\A p \in Procs :
       /\ (proc[p].pc = "update" /\ events[proc[p].ev].status = "planning"
             /\ events'[proc[p].ev].status = "fixed") =>
            \A o \in OptionsOf(proc[p].ev) : ~ComesBefore(o, proc[p].best)
       /\ (proc[p].pc = "snapshot" /\ proc'[p].pc = "booking"
             /\ events[proc[p].ev].room_id # NoRoom) =>
            Cardinality(LogsOf(proc[p].ev)') = proc[p].thisYes]_vars

\* the events that are decided or cancelled
Settled == {e \in Events : events[e].status \in {"fixed", "closed"}}

\* C40: a vote on a slot of an event that is already fixed or closed is accepted
\* and stored in the ledger like any other, and the step that stores it leaves
\* the event statuses, the bookings and the attendance rows as they were.
C40_LateVote ==
  /\ [](\A o \in event_options : o.event_id \in Settled =>
          \A u \in user_profiles, c \in Choices :
             VoteInsert(votes, o.id, u, c) = Cast(votes, o.id, u, c))
  /\ [][(votes' # votes /\ \E v \in votes' \ votes :
                             \E o \in event_options : o.id = v.event_option_id /\ o.event_id \in Settled)
          => UNCHANGED <<events, bookings, attendance_logs>>]_vars
\* user 1 was snapshotted as attending e1 and changed the vote to no afterwards;
\* e1 has been cancelled
C40_Witness ==
  /\ events["e1"].status = "closed"
  /\ [event_option_id |-> "o1", slack_user_id |-> 1, choice |-> "no"] \in votes
  /\ \E a \in attendance_logs : a.event_id = "e1" /\ a.slack_user_id = 1

====
